---- MODULE Spec2Model ----
(***************************************************************************)
(* Model of the Rocket League IRL gateway server (src/server).             *)
(*                                                                         *)
(* Specifications of this module:                                          *)
(*   Spec     the session dispatcher and the car registry: client sessions *)
(*            (websocket/websocket.py), the synchronous handlers           *)
(*            (websocket/handlers.py) and CarManager                       *)
(*            (models/car_manager.py).  Synchronous handlers contain no    *)
(*            await, so each is one atomic step of the event loop.         *)
(*   FairSpec Spec with the coroutine of a closed transport resumed.       *)
(*   PassSpec the dispatcher with the asynchronous passthrough handlers    *)
(*            (websocket/async_handlers.py).                               *)
(*   BleSpec  the adapter coordinator BLEService (bluetooth/ble_service.py)*)
(*            and the device session PDGCarDevice (bluetooth/ble_device.py)*)
(*            as interleaved tasks that yield at every await.              *)
(***************************************************************************)
EXTENDS Integers, Sequences, FiniteSets, TLC

VARIABLES
    cars,               \* CarManager.cars: car_id -> Car
    active_connections, \* websocket.active_connections (its key set)
    conn,               \* per session: position of its handle_message coroutine
    drive_tasks,        \* fire-and-forget send_bluetooth_command tasks not yet run
    discovered_devices, \* BLEService.discovered_devices (its key set)
    response,           \* the reply most recently sent by a handler
    ble_issued,         \* BLE operations issued by the most recent message
    select_car_returned, \* (success, message) of the latest CarManager.select_car
    current_phase,      \* BLEService.current_phase
    ble_operation_lock, \* BLEService.ble_operation_lock: the task it is granted to
    lock_waiters,       \* the FIFO of tasks suspended in its acquire()
    task,               \* per BLE task: its operation, position and locals
    is_connected,       \* per device: PDGCarDevice.is_connected
    phase_event,        \* the phase most recently passed to the phase callbacks
    ble_log,            \* the outcome most recently logged by the BLE service
    drive_args,         \* per BLE task: the arguments of its set_drive_on_car
    call_counts,        \* per BLE task: the GATT connect attempts and adapter
                        \* resets its connect flow has started so far
    game_manager,       \* websocket.game_manager: None, or the GameManager's
                        \* match_length_seconds and current_game
    broadcast,          \* per session: the broadcast_to_all_clients call its
                        \* handler is suspended in
    monitor_log,        \* the latest log line of game_time_monitor
    client,             \* PDGCarDevice.client of car A: NoClient, or the
                        \* BleakClient it refers to
    link_open,          \* the BleakClients whose GATT link is open
    clients_created,    \* the number of BleakClients constructed so far
    device_call         \* per BLE task: the call of PDGCarDevice.connect or
                        \* disconnect it is in, its position and locals

varsOwn == <<cars, active_connections, conn, drive_tasks, discovered_devices,
             response, ble_issued, select_car_returned>>
varsSessions == <<active_connections, conn, drive_tasks, response, ble_issued,
                  select_car_returned>>
varsBle == <<current_phase, ble_operation_lock, lock_waiters, task,
             is_connected, phase_event, ble_log, drive_args,
             call_counts>>
varsGame == <<game_manager, broadcast, monitor_log>>
varsDevice == <<client, link_open, clients_created, device_call>>
vars == <<cars, active_connections, conn, drive_tasks, discovered_devices,
          response, ble_issued, select_car_returned, current_phase,
          ble_operation_lock,
          lock_waiters, task, is_connected, phase_event, ble_log, drive_args,
          call_counts, game_manager, broadcast, monitor_log, client,
          link_open, clients_created, device_call>>

\* Python None: as a message or a phase it is the string, as a websocket_id
\* (Car.websocket_id = None, a handler called without one) it is Unassigned.
None == "None"
Unassigned == 0

(***************************************************************************)
(* Bounds and input domains                                                *)
(***************************************************************************)
NumSessions == 2
MaxDriveTasks == 1
NumTasks == 2
MaxMatchLength == 2
MaxBroadcasts == 1
MaxGoals == 1

Sessions == 1..NumSessions

\* Coroutines that run BLE operations (the coroutines of sessions inside an
\* asynchronous handler, drive tasks, the discovery task of main).
Tasks == 1..NumTasks
NoTask == 0

\* A BLE local name "RL-CAR-" + mac is represented by the hex digits of mac
\* (":" removed), an address by its string.
NameA == <<12, 12, 11, 10, 9, 7, 0, 13, 8, 12, 11, 5>>
NameB == <<12, 12, 11, 10, 9, 7, 0, 14, 8, 12, 11, 5>>
NameC == <<10, 10, 0, 0, 0, 0, 0, 0, 0, 0, 0, 1>>
AddrA == "CC:BA:97:0D:8C:B5"
AddrB == "CC:BA:97:0E:8C:B5"
AddrC == "AA:00:00:00:00:01"

Advertisements ==
    { [name |-> NameA, address |-> AddrA],
      [name |-> NameB, address |-> AddrB],
      [name |-> NameC, address |-> AddrC] }

\* The device the BLE tasks work on, and what a phase-entry scan may report.
BleDevices == {AddrA}
ScanResults == { <<>>, <<[name |-> NameA, address |-> AddrA]>> }

\* The move_car inputs at the two ends of the steering range.
SteeringInputs ==
    { [move |-> "forward", x |-> x, boost |-> "false"] : x \in {-101, -100, 100, 101} }

\* The move_car inputs whose drive tasks DriveSpec runs.
DriveInputs ==
    { [move |-> move, x |-> x, boost |-> boost] :
        move \in {"forward", "backward", "stopped"},
        x \in {-100, -30, 0, 100},
        boost \in {"true", "false"} }

\* Integer arguments of set_drive around the bounds of each characteristic
\* and of a signed byte, one argument varied at a time.
IntegerDriveArgs ==
    { <<v, 0, 0, 0>> : v \in {-129, -128, -101, -100, 100, 101, 127, 128} } \cup
    { <<0, v, 0, 0>> : v \in {-129, -128, -101, -100, 100, 101, 127, 128} } \cup
    { <<0, 0, v, 0>> : v \in {-101, -1, 0, 100, 101, 128} } \cup
    { <<0, 0, 0, v>> : v \in {-1, 0, 1, 2, 128} }

\* The (x, y, speed, decay_mode) the BLE tasks call set_drive_on_car with.
BleDriveArgs == { <<-30, 50, 100, 1>> }

\* Sequences of distinct advertisements one discovery scan may report.
SeenOrders ==
    { <<a>> : a \in Advertisements } \cup
    { s \in { <<a, b>> : a \in Advertisements, b \in Advertisements } : s[1] # s[2] }


MoveInputs ==
    { [move |-> "forward", x |-> -30, boost |-> "true"],
      [move |-> "backward", x |-> 101, boost |-> "false"] }

(***************************************************************************)
(* Car and CarManager                                                      *)
(***************************************************************************)
RECURSIVE HexToInt(_)
HexToInt(digits) ==
    IF digits = <<>> THEN 0
    ELSE 16 * HexToInt(SubSeq(digits, 1, Len(digits) - 1)) + digits[Len(digits)]

\* mac_part[-4:]
LastFour(digits) ==
    IF Len(digits) <= 4 THEN digits
    ELSE SubSeq(digits, Len(digits) - 3, Len(digits))

\* int(mac_part[-4:], 16); every name of the model is hexadecimal, so the
\* hash fallback is not taken.
generate_car_id_from_ble_name(ble_name) == HexToInt(LastFour(ble_name))

CarIds == { generate_car_id_from_ble_name(a.name) : a \in Advertisements }
\* A car id no advertisement yields.
UnknownCarId == CHOOSE n \in 1..9 : n \notin CarIds
CarIdInputs == CarIds \cup {UnknownCarId}

Car(car_id, ble_name, ble_address) ==
    [ car_id |-> car_id, ble_name |-> ble_name, ble_address |-> ble_address,
      move |-> "stopped", x |-> 0, boost |-> FALSE, websocket_id |-> Unassigned ]

\* get_car(car_id) is not None
has_car(cs, car_id) == car_id \in DOMAIN cs

\* The ids of the registry entries with this name / address (the loop returns
\* the first; the advertisements of the model never match two entries).
get_car_by_ble_name(cs, ble_name) ==
    { c \in DOMAIN cs : cs[c].ble_name = ble_name }

get_car_by_ble_address(cs, ble_address) ==
    { c \in DOMAIN cs : cs[c].ble_address = ble_address }

add_car(cs, car) ==
    [ c \in DOMAIN cs \cup {car.car_id} |-> IF c = car.car_id THEN car ELSE cs[c] ]

\* add_or_update_car_from_ble that constructs a new Car for every advertisement.
add_or_update_car_from_ble_anew(cs, ble_name, ble_address) ==
    add_car(cs, Car(generate_car_id_from_ble_name(ble_name), ble_name, ble_address))

add_or_update_car_from_ble(cs, ble_name, ble_address) ==
    LET by_name == get_car_by_ble_name(cs, ble_name)
        existing_car == IF by_name # {} THEN by_name
                        ELSE get_car_by_ble_address(cs, ble_address)
    IN  IF existing_car # {}
        THEN LET c == CHOOSE c \in existing_car : TRUE
             IN  [ cs EXCEPT ![c] =
                     [ @ EXCEPT !.ble_name = ble_name, !.ble_address = ble_address ] ]
        ELSE add_car(cs, Car(generate_car_id_from_ble_name(ble_name),
                             ble_name, ble_address))

\* select_car without the test for another owner.
select_car_takeover(cs, car_id, websocket_id) ==
    IF ~has_car(cs, car_id)
    THEN [success |-> FALSE, message |-> "not found", cars |-> cs]
    ELSE [success |-> TRUE, message |-> "successfully selected",
          cars |-> [ cs EXCEPT ![car_id].websocket_id = websocket_id ]]

\* select_car refusing every car that has an owner, the caller included.
select_car_owner_refused(cs, car_id, websocket_id) ==
    IF ~has_car(cs, car_id)
    THEN [success |-> FALSE, message |-> "not found", cars |-> cs]
    ELSE IF cs[car_id].websocket_id # Unassigned
    THEN [success |-> FALSE, message |-> "already selected by another client",
          cars |-> cs]
    ELSE [success |-> TRUE, message |-> "successfully selected",
          cars |-> [ cs EXCEPT ![car_id].websocket_id = websocket_id ]]

\* No select_car call has returned yet.
NoReturn == <<FALSE, None>>

\* select_car returns (success, message, car); cars is the registry after it.
select_car(cs, car_id, websocket_id) ==
    IF ~has_car(cs, car_id)
    THEN [success |-> FALSE, message |-> "not found", cars |-> cs]
    ELSE IF cs[car_id].websocket_id # Unassigned
    THEN IF cs[car_id].websocket_id = websocket_id
         THEN [success |-> TRUE, message |-> "already selected by this client",
               cars |-> cs]
         ELSE [success |-> FALSE, message |-> "already selected by another client",
               cars |-> cs]
    ELSE [success |-> TRUE, message |-> "successfully selected",
          cars |-> [ cs EXCEPT ![car_id].websocket_id = websocket_id ]]

\* free_car refusing a car that is free already.
free_car_free_refused(cs, car_id, websocket_id) ==
    IF ~has_car(cs, car_id)
    THEN [success |-> FALSE, message |-> "not found", cars |-> cs]
    ELSE IF cs[car_id].websocket_id = Unassigned
    THEN [success |-> FALSE, message |-> "already free", cars |-> cs]
    ELSE IF websocket_id # Unassigned /\ cs[car_id].websocket_id # websocket_id
    THEN [success |-> FALSE, message |-> "not selected by this client", cars |-> cs]
    ELSE [success |-> TRUE, message |-> "has been freed",
          cars |-> [ cs EXCEPT ![car_id].websocket_id = Unassigned ]]

\* free_car without the verification of the owner.
free_car_unverified(cs, car_id, websocket_id) ==
    IF ~has_car(cs, car_id)
    THEN [success |-> FALSE, message |-> "not found", cars |-> cs]
    ELSE IF cs[car_id].websocket_id = Unassigned
    THEN [success |-> TRUE, message |-> "already free", cars |-> cs]
    ELSE [success |-> TRUE, message |-> "has been freed",
          cars |-> [ cs EXCEPT ![car_id].websocket_id = Unassigned ]]

\* free_car returns (success, message); cars is the registry after it.
free_car(cs, car_id, websocket_id) ==
    IF ~has_car(cs, car_id)
    THEN [success |-> FALSE, message |-> "not found", cars |-> cs]
    ELSE IF cs[car_id].websocket_id = Unassigned
    THEN [success |-> TRUE, message |-> "already free", cars |-> cs]
    ELSE IF websocket_id # Unassigned /\ cs[car_id].websocket_id # websocket_id
    THEN [success |-> FALSE, message |-> "not selected by this client", cars |-> cs]
    ELSE [success |-> TRUE, message |-> "has been freed",
          cars |-> [ cs EXCEPT ![car_id].websocket_id = Unassigned ]]

\* free_cars_by_websocket returning from inside its loop: one car is freed.
free_cars_by_websocket_first(cs, websocket_id) ==
    LET owned == { c \in DOMAIN cs : cs[c].websocket_id = websocket_id }
        first == IF owned = {} THEN {} ELSE { CHOOSE c \in owned : TRUE }
    IN  [ freed_cars |-> first,
          cars |-> [ c \in DOMAIN cs |->
                       IF c \in first
                       THEN [ cs[c] EXCEPT !.websocket_id = Unassigned ]
                       ELSE cs[c] ] ]

\* free_cars_by_websocket without the comparison of the owner: every owned
\* car is freed.
free_cars_by_websocket_all(cs, websocket_id) ==
    [ freed_cars |-> { c \in DOMAIN cs : cs[c].websocket_id # Unassigned },
      cars |-> [ c \in DOMAIN cs |-> [ cs[c] EXCEPT !.websocket_id = Unassigned ] ] ]

\* free_cars_by_websocket returns freed_cars; cars is the registry after it.
free_cars_by_websocket(cs, websocket_id) ==
    [ freed_cars |-> { c \in DOMAIN cs : cs[c].websocket_id = websocket_id },
      cars |-> [ c \in DOMAIN cs |->
                   IF cs[c].websocket_id = websocket_id
                   THEN [ cs[c] EXCEPT !.websocket_id = Unassigned ]
                   ELSE cs[c] ] ]

get_cars_by_websocket(cs, websocket_id) ==
    { c \in DOMAIN cs : cs[c].websocket_id = websocket_id }

\* update_car_status(car_id, move=..., x=..., boost=...)
update_car_status(cs, car_id, move, x, boost) ==
    IF has_car(cs, car_id)
    THEN [ cs EXCEPT ![car_id] = [ @ EXCEPT !.move = move, !.x = x, !.boost = boost ] ]
    ELSE cs

(***************************************************************************)
(* Session dispatcher: websocket/websocket.py, websocket/handlers.py,      *)
(* websocket/async_handlers.py                                             *)
(***************************************************************************)
\* The keys of async_handlers.ASYNC_HANDLERS and handlers.ACTION_HANDLERS.
ASYNC_HANDLERS ==
    { "send_to_car", "set_wifi_credentials", "connect_to_car",
      "switch_to_scan_phase", "switch_to_control_phase",
      "start_game", "stop_game", "resume_game", "end_game", "goal_scored" }

ACTION_HANDLERS ==
    { "move_car", "get_car_status", "get_all_cars", "get_free_cars",
      "select_car", "free_car", "send_to_car", "connect_to_car",
      "switch_to_scan_phase", "switch_to_control_phase", "get_phase_status",
      "start_game", "stop_game", "resume_game", "end_game", "get_game_status",
      "goal_scored", "score_goal", "add_car_to_team", "remove_car_from_teams",
      "add_team" }

\* The actions the synchronous branch of handle_message calls with websocket_id.
WebsocketIdActions ==
    { "select_car", "free_car", "move_car", "send_to_car", "connect_to_car" }

Reply(status, action, message, sent) ==
    [ status |-> status, action |-> action, message |-> message,
      bluetooth_command_sent |-> sent ]

NoReply == Reply(None, None, None, None)

\* A broadcast_to_all_clients call suspended in a send: the handler's action,
\* the dict order and size the iterator of active_connections.items() was
\* created with, the iterator's position, the sessions sent to, and the list
\* disconnected_connections.
Broadcast(action, order, pos, size, sent, disconnected_connections) ==
    [ action |-> action, order |-> order, pos |-> pos, size |-> size,
      sent |-> sent, disconnected_connections |-> disconnected_connections ]

NoBroadcast == Broadcast(None, <<>>, 0, 0, {}, {})

\* A send_bluetooth_command closure: the car and the drive inputs it captured
\* (it captures no websocket_id).
DriveTask(car_id, move, x, boost) ==
    [ car_id |-> car_id, move |-> move, x |-> x, boost |-> boost ]

\* The permission test of the handlers left out.
controlled_by_another_unchecked(cs, car_id, websocket_id) == FALSE

\* car.websocket_id is not None and car.websocket_id != websocket_id, behind
\* "if websocket_id and ..."
controlled_by_another(cs, car_id, websocket_id) ==
    /\ websocket_id # Unassigned
    /\ cs[car_id].websocket_id # Unassigned
    /\ cs[car_id].websocket_id # websocket_id

handle_select_car(data, websocket_id) ==
    /\ IF websocket_id = Unassigned
       THEN /\ response' = Reply("error", "select_car", "WebSocket ID not available", None)
            /\ cars' = cars
            /\ UNCHANGED select_car_returned
       ELSE LET r == select_car(cars, data.car, websocket_id)
            IN  /\ cars' = r.cars
                /\ select_car_returned' = <<r.success, r.message>>
                /\ response' = IF r.success
                               THEN Reply("success", "select_car", None, None)
                               ELSE Reply("error", "select_car", r.message, None)
    /\ ble_issued' = {}
    /\ UNCHANGED drive_tasks

handle_free_car(data, websocket_id) ==
    LET r == free_car(cars, data.car, websocket_id)
    IN  /\ cars' = r.cars
        /\ response' = Reply(IF r.success THEN "success" ELSE "error",
                             "free_car", r.message, None)
        /\ ble_issued' = {}
        /\ UNCHANGED drive_tasks

\* handle_move_car whose x test excludes the two ends of the range.
handle_move_car_open_bound(data, websocket_id) ==
    /\ ble_issued' = {}
    /\ IF data.x <= -100 \/ data.x >= 100
       THEN /\ response' = Reply("error", "move_car", "Invalid x parameter", None)
            /\ UNCHANGED <<cars, drive_tasks>>
       ELSE IF ~has_car(cars, data.car)
       THEN /\ response' = Reply("error", "move_car", "not found", None)
            /\ UNCHANGED <<cars, drive_tasks>>
       ELSE IF controlled_by_another(cars, data.car, websocket_id)
       THEN /\ response' = Reply("error", "move_car",
                                 "controlled by another client", None)
            /\ UNCHANGED <<cars, drive_tasks>>
       ELSE LET boost_bool == (data.boost = "true")
            IN  /\ Len(drive_tasks) < MaxDriveTasks
                /\ cars' = update_car_status(cars, data.car, data.move, data.x, boost_bool)
                \* loop.create_task(send_bluetooth_command()): the handler runs
                \* inside the server's event loop, so the task is created
                /\ drive_tasks' = Append(drive_tasks,
                       DriveTask(data.car, data.move, data.x, boost_bool))
                /\ response' = Reply("success", "move_car",
                                     "command received and executed", "true")

\* handle_move_car(data, car_manager, websocket_id)
handle_move_car(data, websocket_id) ==
    /\ ble_issued' = {}
    /\ IF data.x < -100 \/ data.x > 100
       THEN /\ response' = Reply("error", "move_car", "Invalid x parameter", None)
            /\ UNCHANGED <<cars, drive_tasks>>
       ELSE IF ~has_car(cars, data.car)
       THEN /\ response' = Reply("error", "move_car", "not found", None)
            /\ UNCHANGED <<cars, drive_tasks>>
       ELSE IF controlled_by_another(cars, data.car, websocket_id)
       THEN /\ response' = Reply("error", "move_car",
                                 "controlled by another client", None)
            /\ UNCHANGED <<cars, drive_tasks>>
       ELSE LET boost_bool == (data.boost = "true")
            IN  /\ Len(drive_tasks) < MaxDriveTasks
                /\ cars' = update_car_status(cars, data.car, data.move, data.x, boost_bool)
                \* loop.create_task(send_bluetooth_command()): the handler runs
                \* inside the server's event loop, so the task is created
                /\ drive_tasks' = Append(drive_tasks,
                       DriveTask(data.car, data.move, data.x, boost_bool))
                /\ response' = Reply("success", "move_car",
                                     "command received and executed", "true")

\* The synchronous send_to_car handler (it sends nothing itself).
handle_send_to_car(data, websocket_id) ==
    /\ ble_issued' = {}
    /\ UNCHANGED <<cars, drive_tasks>>
    /\ IF has_car(cars, data.car) /\ controlled_by_another(cars, data.car, websocket_id)
       THEN response' = Reply("error", "send_to_car", "controlled by another client", None)
       ELSE IF ~has_car(cars, data.car)
       THEN response' = Reply("error", None, "not found", None)
       ELSE IF cars[data.car].ble_address \notin discovered_devices
       THEN response' = Reply("error", None, "BLE device not found", None)
       ELSE response' = Reply("success", None, "Command sent to car", None)

\* handle_send_to_car_async(data, car_manager): it takes no websocket_id.  The
\* device's link state and the outcome of connect() and of the write come
\* from the BLE layer (BleSpec) and are drawn here.
handle_send_to_car_async(data) ==
    /\ UNCHANGED <<cars, drive_tasks>>
    /\ IF ~has_car(cars, data.car)
       THEN /\ response' = Reply("error", None, "not found", None)
            /\ ble_issued' = {}
       ELSE IF cars[data.car].ble_address \notin discovered_devices
       THEN /\ response' = Reply("error", None, "BLE device not found", None)
            /\ ble_issued' = {}
       ELSE \E device_connected \in BOOLEAN, connected \in BOOLEAN, written \in BOOLEAN :
              LET connect_ops == IF device_connected THEN {} ELSE {"connect"}
              IN  IF ~device_connected /\ ~connected
                  THEN /\ response' = Reply("error", None, "Failed to connect", None)
                       /\ ble_issued' = connect_ops
                  ELSE /\ ble_issued' = connect_ops \cup {"write"}
                       /\ response' =
                            IF written
                            THEN Reply("success", None, "Command sent to car", None)
                            ELSE Reply("error", None, "Failed to send command", None)

\* handle_connect_to_car_async(data, car_manager): it takes no websocket_id.
\* connect_to_device makes no attempt when the phase is scan ("blocked").
handle_connect_to_car_async(data) ==
    /\ UNCHANGED <<cars, drive_tasks>>
    /\ IF ~has_car(cars, data.car)
       THEN /\ response' = Reply("error", None, "not found", None)
            /\ ble_issued' = {}
       ELSE IF cars[data.car].ble_address \notin discovered_devices
       THEN /\ response' = Reply("error", None, "BLE device not found", None)
            /\ ble_issued' = {}
       ELSE \E outcome \in {"already", "blocked", "failed", "connected"} :
              /\ ble_issued' = IF outcome \in {"failed", "connected"}
                               THEN {"connect"} ELSE {}
              /\ response' =
                   CASE outcome = "already" ->
                          Reply("success", None, "already connected", None)
                     [] outcome = "connected" ->
                          Reply("success", None, "Successfully connected", None)
                     [] OTHER ->
                          Reply("error", None, "Failed to connect", None)

handle_unknown_action(data) ==
    /\ response' = Reply("error", data.action, "Unknown action", None)
    /\ ble_issued' = {}
    /\ UNCHANGED <<cars, drive_tasks>>

\* One iteration of the message loop of handle_message for session S:
\* asynchronous handlers are looked up first and get (data, car_manager).
handle_message(S, data) ==
    /\ conn[S] = "open"
    /\ broadcast[S] = NoBroadcast
    /\ IF data.action \in ASYNC_HANDLERS
       THEN CASE data.action = "send_to_car" -> handle_send_to_car_async(data)
              [] data.action = "connect_to_car" -> handle_connect_to_car_async(data)
              [] OTHER -> handle_unknown_action(data)
       ELSE IF data.action \in ACTION_HANDLERS
       THEN LET websocket_id == IF data.action \in WebsocketIdActions
                                THEN S ELSE Unassigned
            IN  CASE data.action = "select_car" -> handle_select_car(data, websocket_id)
                  [] data.action = "free_car" -> handle_free_car(data, websocket_id)
                  [] data.action = "move_car" -> handle_move_car(data, websocket_id)
                  [] data.action = "send_to_car" -> handle_send_to_car(data, websocket_id)
                  [] OTHER -> handle_unknown_action(data)
       ELSE handle_unknown_action(data)
    /\ data.action # "select_car" => UNCHANGED select_car_returned
    /\ UNCHANGED <<active_connections, conn, discovered_devices>>
    /\ UNCHANGED varsBle
    /\ UNCHANGED varsGame
    /\ UNCHANGED varsDevice

\* handle_message up to the loop: the session gets its uuid4 and is registered.
Connect(S) ==
    /\ conn[S] = "none"
    /\ conn' = [conn EXCEPT ![S] = "open"]
    /\ active_connections' = active_connections \cup {S}
    /\ UNCHANGED <<cars, drive_tasks, discovered_devices, response, ble_issued,
                   select_car_returned>>
    /\ UNCHANGED varsBle
    /\ UNCHANGED varsGame
    /\ UNCHANGED varsDevice

\* The client's transport closes; the coroutine has not yet left its loop.
TransportClose(S) ==
    /\ conn[S] = "open"
    /\ conn' = [conn EXCEPT ![S] = "closed"]
    /\ UNCHANGED <<cars, active_connections, drive_tasks, discovered_devices,
                   response, ble_issued,
                   select_car_returned>>
    /\ UNCHANGED varsBle
    /\ UNCHANGED varsGame
    /\ UNCHANGED varsDevice

cleanup_websocket_connection(websocket_id) ==
    /\ active_connections' = active_connections \ {websocket_id}
    /\ cars' = free_cars_by_websocket(cars, websocket_id).cars

\* The ways the message loop of a closed transport is left; each of them runs
\* the finally clause.
LoopExits == { "iteration ends", "ConnectionClosed in send",
               "ConnectionClosed in recv", "exception in recv" }

SessionEnd(S) ==
    /\ conn[S] = "closed"
    /\ broadcast[S] = NoBroadcast
    /\ \E exit \in LoopExits : cleanup_websocket_connection(S)
    /\ conn' = [conn EXCEPT ![S] = "ended"]
    /\ UNCHANGED <<drive_tasks, discovered_devices, response, ble_issued,
                   select_car_returned>>
    /\ UNCHANGED varsBle
    /\ UNCHANGED varsGame
    /\ UNCHANGED varsDevice

RECURSIVE UpsertAll(_, _)
UpsertAll(cs, seen) ==
    IF seen = <<>> THEN cs
    ELSE UpsertAll(add_or_update_car_from_ble(cs, Head(seen).name, Head(seen).address),
                   Tail(seen))

\* The events the result loop of discover_cars passes to
\* _notify_device_callbacks for a scan that reported `seen`, with the devices
\* `known` in discovered_devices: "discovered" for a device that is entered,
\* nothing for one that is there already.
RECURSIVE device_events(_, _)
device_events(known, seen) ==
    IF seen = <<>> THEN <<>>
    ELSE IF Head(seen).address \in known
    THEN device_events(known, Tail(seen))
    ELSE <<[address |-> Head(seen).address, event_type |-> "discovered"]>>
         \o device_events(known \cup {Head(seen).address}, Tail(seen))

\* The result loop of discover_cars for a scan that reported `seen`: every
\* device is entered in discovered_devices and upserted in the registry.
DiscoverCars(seen) ==
    /\ discovered_devices' =
           discovered_devices \cup { seen[i].address : i \in 1..Len(seen) }
    /\ cars' = UpsertAll(cars, seen)
    /\ UNCHANGED <<active_connections, conn, drive_tasks, response, ble_issued,
                   select_car_returned>>
    /\ UNCHANGED varsBle
    /\ UNCHANGED varsGame
    /\ UNCHANGED varsDevice

\* The oldest pending send_bluetooth_command task runs (its BLE side is
\* BleSpec's DriveOnCar).
DriveTaskRun ==
    /\ drive_tasks # <<>>
    /\ drive_tasks' = Tail(drive_tasks)
    /\ UNCHANGED <<cars, active_connections, conn, discovered_devices, response,
                   ble_issued,
                   select_car_returned>>
    /\ UNCHANGED varsBle
    /\ UNCHANGED varsGame
    /\ UNCHANGED varsDevice

SelectCarMessage ==
    \E S \in Sessions, c \in CarIdInputs :
        handle_message(S, [action |-> "select_car", car |-> c])

FreeCarMessage ==
    \E S \in Sessions, c \in CarIdInputs :
        handle_message(S, [action |-> "free_car", car |-> c])

MoveCarMessage ==
    \E S \in Sessions, c \in CarIdInputs, m \in MoveInputs :
        handle_message(S, [action |-> "move_car", car |-> c, move |-> m.move,
                           x |-> m.x, boost |-> m.boost])

SendToCarMessage ==
    \E S \in Sessions, c \in CarIdInputs :
        handle_message(S, [action |-> "send_to_car", car |-> c])

ConnectToCarMessage ==
    \E S \in Sessions, c \in CarIdInputs :
        handle_message(S, [action |-> "connect_to_car", car |-> c])

(***************************************************************************)
(* Drive translation and the drive writes of the device session            *)
(***************************************************************************)
\* translate_move_to_drive_params whose boost leaves the speed alone.
translate_move_to_drive_params_base_speed(move, x, boost) ==
    LET drive_y == CASE move = "forward" -> 50
                     [] move = "backward" -> -50
                     [] OTHER -> 0
        speed == CASE move = "forward" -> 50
                   [] move = "backward" -> 50
                   [] OTHER -> 0
    IN  << x, drive_y, speed, IF boost THEN 1 ELSE 0 >>

\* handlers.translate_move_to_drive_params: (drive_x, drive_y, speed, decay_mode)
translate_move_to_drive_params(move, x, boost) ==
    LET drive_y == CASE move = "forward" -> 50
                     [] move = "backward" -> -50
                     [] OTHER -> 0
        speed == CASE move = "forward" -> 50
                   [] move = "backward" -> 50
                   [] OTHER -> 0
    IN  << x, drive_y, IF boost THEN 100 ELSE speed, IF boost THEN 1 ELSE 0 >>

\* ble_constants.clamp: max(lo, min(hi, v))
clamp(v, lo, hi) ==
    LET m == IF hi < v THEN hi ELSE v
    IN  IF lo > m THEN lo ELSE m

\* write_i8: the signed byte struct.pack("b", clamp(v, -128, 127)) carries.
write_i8(v) == clamp(v, -128, 127)

\* PDGCarDevice of ble_device.py: the domain clamps, then write_i8.
write_x_direction(value) == write_i8(clamp(value, -100, 100))
write_y_direction(value) == write_i8(clamp(value, -100, 100))
write_speed_direction(value) == write_i8(clamp(value, 0, 100))
write_decay_mode(value) == write_i8(clamp(value, 0, 1))

\* The values set_drive of ble_device.py writes to Dir X, Dir Y, Dir Speed
\* and Decay.
set_drive_clamped(args) ==
    << write_x_direction(args[1]), write_y_direction(args[2]),
       write_speed_direction(args[3]), write_decay_mode(args[4]) >>

\* The values set_drive of bluetooth_service.py writes: this PDGCarDevice is
\* the one BluetoothService wires (its BLEService builds the devices), and
\* its set_drive calls write_i8 directly.
set_drive(args) ==
    << write_i8(args[1]), write_i8(args[2]), write_i8(args[3]), write_i8(args[4]) >>

(***************************************************************************)
(* BLEService and PDGCarDevice: tasks that yield at every await            *)
(***************************************************************************)
\* The locals of a task: the operation it runs, the await it is suspended in,
\* the device it works on, the loop variables of PDGCarDevice.connect, the
\* local fresh_device_found of connect_to_device, and for a GATT read or write
\* in flight the value current_phase had when it was issued.
Frame(op, pc, address, attempt, retries, fresh_device_found, gatt) ==
    [ op |-> op, pc |-> pc, address |-> address, attempt |-> attempt,
      retries |-> retries, fresh_device_found |-> fresh_device_found,
      gatt |-> gatt ]

Idle == Frame(None, "idle", None, 0, 0, FALSE, None)

is_in_control_phase == current_phase = "control"

\* async with BLEService.ble_operation_lock: acquire() returns at once when
\* the lock is free, else the task is queued behind the earlier waiters.
acquire(t, granted, waiting) ==
    IF ble_operation_lock = NoTask
    THEN /\ ble_operation_lock' = t
         /\ lock_waiters' = lock_waiters
         /\ task' = [task EXCEPT ![t] = granted]
    ELSE /\ ble_operation_lock' = ble_operation_lock
         /\ lock_waiters' = Append(lock_waiters, t)
         /\ task' = [task EXCEPT ![t] = waiting]

\* release() that frees the lock and wakes no waiter.
release_without_wakeup ==
    /\ ble_operation_lock' = NoTask
    /\ lock_waiters' = lock_waiters

\* release() wakes the first waiter, and no later acquire() overtakes it.
release ==
    /\ ble_operation_lock' =
           IF lock_waiters = <<>> THEN NoTask ELSE Head(lock_waiters)
    /\ lock_waiters' = IF lock_waiters = <<>> THEN <<>> ELSE Tail(lock_waiters)

\* The order of the keys of discovered_devices, and the place of a device in
\* it.
SweepOrder == <<AddrA, AddrB, AddrC>>
position(d) == CHOOSE i \in 1..Len(SweepOrder) : SweepOrder[i] = d

\* The loop of cleanup_stale_connections from the entry after place i on: the
\* next device with is_connected is health-checked; when there is none the
\* scanner is started.
next_stale_check(connected, i, phase) ==
    LET rest == { d \in discovered_devices \cap DOMAIN connected :
                    connected[d] /\ position(d) > i }
    IN  IF rest # {}
        THEN Frame("start_scan_phase", "health",
                   CHOOSE d \in rest : \A e \in rest : position(d) <= position(e),
                   0, 0, FALSE, phase)
        ELSE Frame("start_scan_phase", "scan", None, 0, 0, FALSE, None)

\* discover_cars from the granted lock to its first await:
\* cleanup_stale_connections reads Status from a device with is_connected,
\* else the scanner is started.
discover_cars_locked(phase) == next_stale_check(is_connected, 0, phase)

\* connect_to_device from the granted lock to its first await: the Status
\* read of a device with is_connected, else the fresh-reference scan.
connect_to_device_locked(op, address, phase) ==
    IF is_connected[address]
    THEN Frame(op, "status", address, 0, 0, FALSE, phase)
    ELSE Frame(op, "fresh_scan", address, 0, 0, FALSE, None)

\* The arguments of set_drive_on_car are locals of the call: they are gone
\* when the task has left the operation.
keep_drive_args ==
    drive_args' = [t \in Tasks |->
                      IF task'[t].op = "set_drive_on_car" THEN drive_args[t] ELSE <<>>]

NoCalls == [connects |-> 0, resets |-> 0]

\* The positions of PDGCarDevice.connect and of the reset strategy.
ConnectPcs == {"connect", "verify", "reset", "rescan"}

\* Every "async with BleakClient" entered by connect and every
\* reset_bluetooth_adapter called is counted while the task is in its connect
\* flow.
count_call_steps ==
    call_counts' = [t \in Tasks |->
        IF task'[t].pc \notin ConnectPcs THEN NoCalls
        ELSE [ connects |-> call_counts[t].connects +
                   ( IF /\ task'[t].pc = "connect"
                        /\ \/ task[t].pc # "connect"
                           \/ task[t].attempt # task'[t].attempt
                           \/ task[t].retries # task'[t].retries
                     THEN 1 ELSE 0 ),
               resets |-> call_counts[t].resets +
                   ( IF task'[t].pc = "reset" /\ task[t].pc # "reset"
                     THEN 1 ELSE 0 ) ]]

\* start_scan_phase up to the first await of discover_cars.
StartScanPhase(t) ==
    /\ task[t].pc = "idle"
    /\ current_phase' = "scan"
    /\ acquire(t, discover_cars_locked("scan"),
               Frame("start_scan_phase", "lock", None, 0, 0, FALSE, None))
    /\ UNCHANGED <<is_connected, phase_event, ble_log>>
    /\ keep_drive_args
    /\ count_call_steps
    /\ UNCHANGED varsOwn
    /\ UNCHANGED varsGame
    /\ UNCHANGED varsDevice

\* A task suspended in acquire() is resumed with the lock.
LockGranted(t) ==
    /\ task[t].pc = "lock"
    /\ ble_operation_lock = t
    /\ task' = [task EXCEPT ![t] =
                   IF task[t].op = "start_scan_phase"
                   THEN discover_cars_locked(current_phase)
                   ELSE connect_to_device_locked(task[t].op, task[t].address,
                                                 current_phase)]
    /\ UNCHANGED <<current_phase, ble_operation_lock, lock_waiters,
                   is_connected, phase_event, ble_log>>
    /\ keep_drive_args
    /\ count_call_steps
    /\ UNCHANGED varsOwn
    /\ UNCHANGED varsGame
    /\ UNCHANGED varsDevice

\* is_connection_healthy returns; a stale device is disconnected; the loop
\* goes on with the next device, and after the last one the scanner is
\* started.
HealthCheckDone(t, healthy) ==
    /\ task[t].pc = "health"
    /\ is_connected' = IF healthy THEN is_connected
                       ELSE [is_connected EXCEPT ![task[t].address] = FALSE]
    /\ task' = [task EXCEPT ![t] =
                   next_stale_check(is_connected', position(task[t].address),
                                    task[t].gatt)]
    /\ UNCHANGED <<current_phase, ble_operation_lock, lock_waiters,
                   phase_event, ble_log>>
    /\ keep_drive_args
    /\ count_call_steps
    /\ UNCHANGED varsOwn
    /\ UNCHANGED varsGame
    /\ UNCHANGED varsDevice

\* scanner.stop() returns with the advertisements `seen` (none when the
\* scanner raised): the result loop of discover_cars, the release of the lock
\* and the rest of start_scan_phase run without an await.
ScanComplete(t, seen) ==
    /\ task[t].pc = "scan"
    /\ discovered_devices' =
           discovered_devices \cup { seen[i].address : i \in 1..Len(seen) }
    /\ cars' = UpsertAll(cars, seen)
    /\ release
    /\ IF seen # <<>>
       THEN /\ current_phase' = "control"
            /\ phase_event' = "control"
       ELSE /\ current_phase' = current_phase
            /\ phase_event' = "scan"
    /\ task' = [task EXCEPT ![t] = Idle]
    /\ UNCHANGED <<is_connected, ble_log>>
    /\ keep_drive_args
    /\ count_call_steps
    /\ UNCHANGED varsSessions
    /\ UNCHANGED varsGame
    /\ UNCHANGED varsDevice

\* switch_to_control_phase has no await.
SwitchToControlPhase ==
    /\ current_phase # "control"
    /\ current_phase' = "control"
    /\ phase_event' = "control"
    /\ UNCHANGED <<ble_operation_lock, lock_waiters, task, is_connected, ble_log>>
    /\ keep_drive_args
    /\ count_call_steps
    /\ UNCHANGED varsOwn
    /\ UNCHANGED varsGame
    /\ UNCHANGED varsDevice

\* connect_to_device without its phase test.
connect_to_device_any_phase(t, op, address) ==
    IF address \notin discovered_devices
    THEN /\ ble_log' = "not found in discovered devices"
         /\ UNCHANGED <<ble_operation_lock, lock_waiters, task>>
    ELSE /\ acquire(t, connect_to_device_locked(op, address, current_phase),
                    Frame(op, "lock", address, 0, 0, FALSE, None))
         /\ ble_log' = ble_log

\* connect_to_device(address) up to its first await, called for operation op.
connect_to_device(t, op, address) ==
    IF address \notin discovered_devices
    THEN /\ ble_log' = "not found in discovered devices"
         /\ UNCHANGED <<ble_operation_lock, lock_waiters, task>>
    ELSE IF ~is_in_control_phase
    THEN /\ ble_log' = "Connection blocked: currently in scan phase"
         /\ UNCHANGED <<ble_operation_lock, lock_waiters, task>>
    ELSE /\ acquire(t, connect_to_device_locked(op, address, current_phase),
                    Frame(op, "lock", address, 0, 0, FALSE, None))
         /\ ble_log' = ble_log

\* handle_connect_to_car_async from the lookup of the BLE device on: a device
\* that is not connected is connected with connect_to_device.
ConnectToCar(t, address) ==
    /\ task[t].pc = "idle"
    /\ address \in discovered_devices
    /\ ~is_connected[address]
    /\ connect_to_device(t, "connect_to_device", address)
    /\ UNCHANGED <<current_phase, is_connected, phase_event>>
    /\ keep_drive_args
    /\ count_call_steps
    /\ UNCHANGED varsOwn
    /\ UNCHANGED varsGame
    /\ UNCHANGED varsDevice

\* set_drive_on_car(ble_address, x, y, speed, decay_mode) up to its first
\* await: a connected device gets its first write at once, another one is
\* connected first.  A call that returns False at once leaves ble_log.
set_drive_on_car(t, address, args) ==
    /\ task[t].pc = "idle"
    /\ IF address \notin discovered_devices
       THEN /\ ble_log' = "not found in discovered devices"
            /\ UNCHANGED <<ble_operation_lock, lock_waiters, task>>
       ELSE IF ~is_in_control_phase
       THEN /\ ble_log' = "Drive operation blocked: currently in scan phase"
            /\ UNCHANGED <<ble_operation_lock, lock_waiters, task>>
       ELSE IF is_connected[address]
       THEN /\ task' = [task EXCEPT ![t] =
                   Frame("set_drive_on_car", "write_x", address, 0, 0, FALSE,
                         current_phase)]
            /\ UNCHANGED <<ble_operation_lock, lock_waiters, ble_log>>
       ELSE connect_to_device(t, "set_drive_on_car", address)
    /\ drive_args' = [t2 \in Tasks |->
                         IF task'[t2].op # "set_drive_on_car" THEN <<>>
                         ELSE IF t2 = t THEN args ELSE drive_args[t2]]
    /\ count_call_steps
    /\ UNCHANGED <<current_phase, is_connected, phase_event>>

\* A set_drive_on_car call in the control phase for a discovered device.
SetDriveOnCar(t, address) ==
    /\ address \in discovered_devices
    /\ is_in_control_phase
    /\ \E args \in BleDriveArgs : set_drive_on_car(t, address, args)
    /\ UNCHANGED varsOwn
    /\ UNCHANGED varsGame
    /\ UNCHANGED varsDevice

\* connect with its attempts numbered from 0: one attempt more.
connect_from_zero(f, retries) ==
    Frame(f.op, "connect", f.address, 0, retries, f.fresh_device_found, None)

\* PDGCarDevice.connect(retries) up to its first attempt: the previous client
\* is dropped.
connect(f, retries) ==
    Frame(f.op, "connect", f.address, 1, retries, f.fresh_device_found, None)

\* handle_send_to_car_async from the lookup of the BLE device on, with
\* send_command_to_car: a device that is not connected is connected with
\* ble_device.connect(), then the command is written.
SendToCar(t, address) ==
    /\ task[t].pc = "idle"
    /\ address \in discovered_devices
    /\ IF is_connected[address]
       THEN /\ task' = [task EXCEPT ![t] =
                   Frame("send_to_car", "write_ssid", address, 0, 0, FALSE,
                         current_phase)]
            /\ is_connected' = is_connected
       ELSE /\ task' = [task EXCEPT ![t] =
                   connect(Frame("send_to_car", "idle", address, 0, 0, FALSE, None), 5)]
            /\ is_connected' = [is_connected EXCEPT ![address] = FALSE]
    /\ UNCHANGED <<current_phase, ble_operation_lock, lock_waiters,
                   phase_event, ble_log>>
    /\ keep_drive_args
    /\ count_call_steps
    /\ UNCHANGED varsOwn
    /\ UNCHANGED varsGame
    /\ UNCHANGED varsDevice

\* connect_to_device notifying "connected" on every return.
connect_to_device_returns_always_connected(t, device, log) ==
    /\ release
    /\ ble_log' = "Successfully connected"
    /\ task' = [task EXCEPT ![t] =
                   IF task[t].op = "set_drive_on_car" /\ device
                   THEN Frame("set_drive_on_car", "write_x", task[t].address,
                              0, 0, FALSE, current_phase)
                   ELSE Idle]

\* connect_to_device returns to its caller: the handler is done, and
\* set_drive_on_car goes on to device.set_drive.  The log line stands for the
\* device event notified with it ("connected" with "Successfully connected").
connect_to_device_returns(t, device, log) ==
    /\ release
    /\ ble_log' = log
    /\ task' = [task EXCEPT ![t] =
                   IF task[t].op = "set_drive_on_car" /\ device
                   THEN Frame("set_drive_on_car", "write_x", task[t].address,
                              0, 0, FALSE, current_phase)
                   ELSE Idle]

\* The Status read of connect_to_device returns or raises.
StatusReadDone(t, responsive) ==
    /\ task[t].pc = "status"
    /\ IF responsive
       THEN /\ connect_to_device_returns(t, TRUE, "already connected and responsive")
            /\ is_connected' = is_connected
       ELSE /\ is_connected' = [is_connected EXCEPT ![task[t].address] = FALSE]
            /\ task' = [task EXCEPT ![t] =
                   Frame(task[t].op, "fresh_scan", task[t].address, 0, 0, FALSE, None)]
            /\ UNCHANGED <<ble_operation_lock, lock_waiters, ble_log>>
    /\ UNCHANGED <<current_phase, phase_event>>
    /\ keep_drive_args
    /\ count_call_steps
    /\ UNCHANGED varsOwn
    /\ UNCHANGED varsGame
    /\ UNCHANGED varsDevice

\* The fresh-reference scan ends; strategy 1, device.connect(retries=3), starts.
FreshScanDone(t, found) ==
    /\ task[t].pc = "fresh_scan"
    /\ task' = [task EXCEPT ![t] =
                   connect([task[t] EXCEPT !.fresh_device_found = found], 3)]
    /\ is_connected' = [is_connected EXCEPT ![task[t].address] = FALSE]
    /\ UNCHANGED <<current_phase, ble_operation_lock, lock_waiters,
                   phase_event, ble_log>>
    /\ keep_drive_args
    /\ count_call_steps
    /\ UNCHANGED varsOwn
    /\ UNCHANGED varsGame
    /\ UNCHANGED varsDevice

\* One attempt of PDGCarDevice.connect ends.  A success sets is_connected and
\* reads the device id and Status; the last failure makes connect return
\* False to connect_to_device (retries 3: adapter reset; retries 2: give up)
\* or to handle_send_to_car_async (retries 5).
ConnectAttemptDone(t, connected) ==
    LET f == task[t] IN
    /\ f.pc = "connect"
    /\ IF connected
       THEN /\ is_connected' = [is_connected EXCEPT ![f.address] = TRUE]
            /\ task' = [task EXCEPT ![t] =
                   [f EXCEPT !.pc = "verify", !.gatt = current_phase]]
            /\ UNCHANGED <<ble_operation_lock, lock_waiters, ble_log>>
       ELSE IF f.attempt < f.retries
       THEN /\ task' = [task EXCEPT ![t] = [f EXCEPT !.attempt = f.attempt + 1]]
            /\ UNCHANGED <<is_connected, ble_operation_lock, lock_waiters, ble_log>>
       ELSE /\ is_connected' = [is_connected EXCEPT ![f.address] = FALSE]
            /\ IF f.op = "send_to_car"
               THEN /\ task' = [task EXCEPT ![t] = Idle]
                    /\ UNCHANGED <<ble_operation_lock, lock_waiters, ble_log>>
               ELSE IF f.retries = 3
               THEN /\ task' = [task EXCEPT ![t] =
                           [f EXCEPT !.pc = "reset", !.attempt = 0, !.retries = 0]]
                    /\ UNCHANGED <<ble_operation_lock, lock_waiters, ble_log>>
               ELSE connect_to_device_returns(t, FALSE, "All connection attempts failed")
    /\ UNCHANGED <<current_phase, phase_event>>
    /\ keep_drive_args
    /\ count_call_steps
    /\ UNCHANGED varsOwn
    /\ UNCHANGED varsGame
    /\ UNCHANGED varsDevice

\* The reads that end a successful connect return: connect returns True, to
\* connect_to_device (which returns the device) or to the send_to_car handler
\* (which writes the command).
VerifyDone(t) ==
    /\ task[t].pc = "verify"
    /\ IF task[t].op = "send_to_car"
       THEN /\ task' = [task EXCEPT ![t] =
                   Frame("send_to_car", "write_ssid", task[t].address, 0, 0,
                         FALSE, current_phase)]
            /\ UNCHANGED <<ble_operation_lock, lock_waiters, ble_log>>
       ELSE connect_to_device_returns(t, TRUE, "Successfully connected")
    /\ UNCHANGED <<current_phase, is_connected, phase_event>>
    /\ keep_drive_args
    /\ count_call_steps
    /\ UNCHANGED varsOwn
    /\ UNCHANGED varsGame
    /\ UNCHANGED varsDevice

\* reset_bluetooth_adapter returns: the reference is refreshed by a scan when
\* the fresh-reference scan had found the device, then strategy 2 starts.
ResetDone(t) ==
    /\ task[t].pc = "reset"
    /\ task' = [task EXCEPT ![t] =
                   IF task[t].fresh_device_found
                   THEN [task[t] EXCEPT !.pc = "rescan"]
                   ELSE connect(task[t], 2)]
    /\ UNCHANGED <<current_phase, ble_operation_lock, lock_waiters,
                   is_connected, phase_event, ble_log>>
    /\ keep_drive_args
    /\ count_call_steps
    /\ UNCHANGED varsOwn
    /\ UNCHANGED varsGame
    /\ UNCHANGED varsDevice

\* The scan after the reset ends; strategy 2, device.connect(retries=2), starts.
RescanDone(t) ==
    /\ task[t].pc = "rescan"
    /\ task' = [task EXCEPT ![t] = connect(task[t], 2)]
    /\ UNCHANGED <<current_phase, ble_operation_lock, lock_waiters,
                   is_connected, phase_event, ble_log>>
    /\ keep_drive_args
    /\ count_call_steps
    /\ UNCHANGED varsOwn
    /\ UNCHANGED varsGame
    /\ UNCHANGED varsDevice

\* set_drive with the Speed write moved before the Y write.
NextWrite_speed_before_y ==
    [ write_x |-> "write_speed", write_speed |-> "write_y",
      write_y |-> "write_decay", write_decay |-> "idle", write_ssid |-> "idle" ]

\* The writes of PDGCarDevice.set_drive in their order, then the end.
NextWrite ==
    [ write_x |-> "write_y", write_y |-> "write_speed",
      write_speed |-> "write_decay", write_decay |-> "idle", write_ssid |-> "idle" ]

\* A GATT write returns or raises: set_drive issues its next write, and an
\* exception or the last write ends the operation; set_drive_on_car logs the
\* exception and returns False.
WriteDone(t, written) ==
    /\ task[t].pc \in DOMAIN NextWrite
    /\ task' = [task EXCEPT ![t] =
                   IF written /\ NextWrite[task[t].pc] # "idle"
                   THEN [task[t] EXCEPT !.pc = NextWrite[task[t].pc],
                                        !.gatt = current_phase]
                   ELSE Idle]
    /\ ble_log' = IF ~written /\ task[t].op = "set_drive_on_car"
                  THEN "Error sending drive params" ELSE ble_log
    /\ UNCHANGED <<current_phase, ble_operation_lock, lock_waiters,
                   is_connected, phase_event>>
    /\ keep_drive_args
    /\ count_call_steps
    /\ UNCHANGED varsOwn
    /\ UNCHANGED varsGame
    /\ UNCHANGED varsDevice

\* The position of each drive characteristic in the arguments of set_drive.
DriveChars == [ write_x |-> 1, write_y |-> 2, write_speed |-> 3, write_decay |-> 4 ]

\* The task has a write of set_drive in flight; gatt_write is the value
\* client.write_gatt_char was given.
drive_write_in_flight(t) ==
    task[t].op = "set_drive_on_car" /\ task[t].pc \in DOMAIN DriveChars

gatt_write(t) == set_drive(drive_args[t])[DriveChars[task[t].pc]]

\* The oldest pending send_bluetooth_command closure runs
\* send_drive_command_to_car up to its first await: outside the control phase
\* or for a device that was not discovered it returns False, else the move is
\* translated and set_drive_on_car is called.
SendBluetoothCommand(t) ==
    /\ drive_tasks # <<>>
    /\ task[t].pc = "idle"
    /\ drive_tasks' = Tail(drive_tasks)
    /\ LET d == Head(drive_tasks)
           ble_address == cars[d.car_id].ble_address
       IN  IF ~is_in_control_phase \/ ble_address \notin discovered_devices
           THEN UNCHANGED varsBle
           ELSE set_drive_on_car(t, ble_address,
                    translate_move_to_drive_params(d.move, d.x, d.boost))
    /\ UNCHANGED <<cars, active_connections, conn, discovered_devices, response,
                   ble_issued,
                   select_car_returned>>
    /\ UNCHANGED varsGame
    /\ UNCHANGED varsDevice

(***************************************************************************)
(* GameManager, the game handlers and the broadcast: models/game_manager.py,*)
(* models/game_status.py, websocket/async_handlers.py, websocket.py        *)
(***************************************************************************)
\* GameStatus(match_length_seconds).  The dates are kept as set or not set,
\* and the time run since start_date without the pauses as `elapsed`.
GameStatus(match_length_seconds) ==
    [ start_date |-> FALSE, pause_date |-> FALSE, is_active |-> FALSE,
      is_finished |-> FALSE, match_length_seconds |-> match_length_seconds,
      elapsed |-> 0, goals |-> 0 ]

\* websocket.game_manager: `set` is whether set_game_manager was called
\* (start_server_with_managers), which also sets the broadcast function and
\* starts game_time_monitor.
GameManager(set, match_length_seconds, current_game) ==
    [ set |-> set, match_length_seconds |-> match_length_seconds,
      current_game |-> current_game ]

\* GameManager.__init__: the default match length and a default game.
NewGameManager(set) == GameManager(set, MaxMatchLength, GameStatus(MaxMatchLength))

get_time_remaining(g) ==
    IF ~g.start_date THEN g.match_length_seconds
    ELSE IF g.is_finished THEN 0
    ELSE IF g.match_length_seconds - g.elapsed < 0 THEN 0
    ELSE g.match_length_seconds - g.elapsed

is_game_over(g) == get_time_remaining(g) <= 0 /\ g.is_active

\* GameStatus.to_dict()["state"]
game_state(g) ==
    IF g.is_finished THEN "ended"
    ELSE IF g.is_active THEN "active"
    ELSE IF g.start_date THEN "paused"
    ELSE "not_started"

\* GameStatus.end_game
end_game(g) == [ g EXCEPT !.pause_date = FALSE, !.is_active = FALSE,
                          !.is_finished = TRUE ]

\* The game handlers up to their broadcast: (success, message, the manager
\* after the call).  A match length is given or not; given, it must be positive.
game_action(gm, data) ==
    LET g == gm.current_game
        failed(message) == [ success |-> FALSE, message |-> message, game_manager |-> gm ]
        done(message, gm2) == [ success |-> TRUE, message |-> message, game_manager |-> gm2 ]
    IN  IF ~gm.set THEN failed("Game manager not available")
        ELSE CASE data.action = "start_game" ->
                    IF data.match_length_given /\ data.match_length_seconds <= 0
                    THEN failed("Invalid match length")
                    ELSE LET length == IF data.match_length_given
                                       THEN data.match_length_seconds
                                       ELSE gm.match_length_seconds
                         IN  done("Game started!",
                                  GameManager(TRUE, length,
                                      [ GameStatus(length) EXCEPT
                                          !.start_date = TRUE, !.is_active = TRUE ]))
               [] data.action = "stop_game" ->
                    IF g.is_active
                    THEN done("Game stopped!",
                              [ gm EXCEPT !.current_game =
                                  [ g EXCEPT !.pause_date = TRUE, !.is_active = FALSE ] ])
                    ELSE failed("No active game to stop")
               [] data.action = "resume_game" ->
                    IF ~g.is_finished /\ g.start_date
                    THEN done("Game resumed!",
                              IF g.pause_date
                              THEN [ gm EXCEPT !.current_game =
                                       [ g EXCEPT !.pause_date = FALSE, !.is_active = TRUE ] ]
                              ELSE gm)
                    ELSE failed("Cannot resume game")
               [] data.action = "end_game" ->
                    done("Game ended!", [ gm EXCEPT !.current_game = end_game(g) ])
               [] data.action = "goal_scored" ->
                    IF data.team = None THEN failed("Team color is required")
                    ELSE IF data.team \in {"red", "blue"}
                    THEN done("Goal scored",
                              [ gm EXCEPT !.current_game.goals = g.goals + 1 ])
                    ELSE failed("Failed to score goal")

GameActions == { "start_game", "stop_game", "resume_game", "end_game", "goal_scored" }

GameInputs ==
    { [ action |-> a, match_length_given |-> FALSE, match_length_seconds |-> 0,
        team |-> None ] : a \in GameActions \ {"goal_scored"} } \cup
    { [ action |-> "start_game", match_length_given |-> TRUE,
        match_length_seconds |-> n, team |-> None ] : n \in {0, 1} } \cup
    { [ action |-> "goal_scored", match_length_given |-> FALSE,
        match_length_seconds |-> 0, team |-> t ] : t \in {None, "red", "green"} }

\* The orders a dict with these keys can have: the order of the Connects.
Orders(keys) ==
    { o \in [1..Cardinality(keys) -> keys] :
        \A i, j \in 1..Cardinality(keys) : o[i] = o[j] => i = j }

\* The entries the iterator can yield next: the first entry from its position
\* on that is still in the dict, else an entry inserted after the iterator
\* was created.
next_items(b) ==
    LET later == { i \in b.pos..Len(b.order) : b.order[i] \in active_connections }
    IN  IF later # {}
        THEN { b.order[CHOOSE i \in later : \A j \in later : i <= j] }
        ELSE active_connections \
               ({ b.order[i] : i \in 1..Len(b.order) } \cup b.sent
                \cup b.disconnected_connections)

\* The reply of handle_message reaches session S when its transport is open.
send_reply(S, reply) ==
    response' = IF conn[S] = "open" THEN reply ELSE response

\* broadcast_to_all_clients from one next() of its for loop to the following
\* await, called in the handler of session S.  next() raises RuntimeError
\* when the size of the dict is not the one the iterator was created with;
\* handle_message answers it with "Internal server error".  Else the next
\* entry is sent to, and a send that raises puts it on
\* disconnected_connections.  When the iterator is exhausted the
\* disconnected ones are cleaned up, the handler returns and handle_message
\* sends its reply.
broadcast_to_all_clients(S, b) ==
    IF Cardinality(active_connections) # b.size
    THEN /\ broadcast' = [broadcast EXCEPT ![S] = NoBroadcast]
         /\ send_reply(S, Reply("error", None, "Internal server error", None))
         /\ UNCHANGED <<active_connections, cars>>
    ELSE IF next_items(b) # {}
    THEN /\ \E T \in next_items(b) :
              LET i == IF \E k \in b.pos..Len(b.order) : b.order[k] = T
                       THEN ( CHOOSE k \in b.pos..Len(b.order) : b.order[k] = T ) + 1
                       ELSE Len(b.order) + 1
              IN  broadcast' = [broadcast EXCEPT ![S] =
                     IF conn[T] = "open"
                     THEN [ b EXCEPT !.pos = i, !.sent = @ \cup {T} ]
                     ELSE [ b EXCEPT !.pos = i,
                                     !.disconnected_connections = @ \cup {T} ]]
         /\ UNCHANGED <<active_connections, cars, response>>
    ELSE /\ active_connections' = active_connections \ b.disconnected_connections
         /\ cars' = [ c \in DOMAIN cars |->
                        IF cars[c].websocket_id \in b.disconnected_connections
                        THEN [ cars[c] EXCEPT !.websocket_id = Unassigned ]
                        ELSE cars[c] ]
         /\ broadcast' = [broadcast EXCEPT ![S] = NoBroadcast]
         /\ send_reply(S, Reply("success", b.action, None, None))

\* One iteration of the message loop of handle_message for a game action: the
\* handler, and on success broadcast_response up to its first send.
GameMessage(S, data) ==
    /\ conn[S] = "open"
    /\ broadcast[S] = NoBroadcast
    /\ Cardinality({ T \in DOMAIN broadcast : broadcast[T] # NoBroadcast }) < MaxBroadcasts
    /\ data.action = "goal_scored" => game_manager.current_game.goals < MaxGoals
    /\ LET r == game_action(game_manager, data)
       IN  /\ game_manager' = r.game_manager
           /\ IF r.success
              THEN \E order \in Orders(active_connections) :
                     broadcast_to_all_clients(S,
                         Broadcast(data.action, order, 1,
                                   Cardinality(active_connections), {}, {}))
              ELSE /\ response' = Reply("error", data.action, r.message, None)
                   /\ UNCHANGED <<active_connections, cars, broadcast>>
    /\ ble_issued' = {}
    /\ UNCHANGED <<conn, drive_tasks, discovered_devices, select_car_returned,
                   monitor_log>>
    /\ UNCHANGED varsBle
    /\ UNCHANGED varsDevice

\* The send the broadcast of session S is suspended in returns or raises.
BroadcastStep(S) ==
    /\ broadcast[S] # NoBroadcast
    /\ broadcast_to_all_clients(S, broadcast[S])
    /\ UNCHANGED <<conn, drive_tasks, discovered_devices, ble_issued,
                   select_car_returned, game_manager, monitor_log>>
    /\ UNCHANGED varsBle
    /\ UNCHANGED varsDevice

\* A second of a running game passes.
Tick ==
    LET g == game_manager.current_game IN
    /\ g.is_active
    /\ g.elapsed < g.match_length_seconds
    /\ game_manager' = [ game_manager EXCEPT !.current_game.elapsed = g.elapsed + 1 ]
    /\ UNCHANGED <<broadcast, monitor_log>>
    /\ UNCHANGED varsOwn
    /\ UNCHANGED varsBle
    /\ UNCHANGED varsDevice

\* One round of game_time_monitor in which check_game_time ends the game:
\* "from .async_handlers import broadcast_game_event" raises ImportError, as
\* async_handlers defines no such name; the except clause logs it.
game_time_monitor ==
    /\ game_manager.set
    /\ is_game_over(game_manager.current_game)
    /\ game_manager' = [ game_manager EXCEPT
                            !.current_game = end_game(game_manager.current_game) ]
    /\ monitor_log' = "Error in game time monitor"
    /\ UNCHANGED broadcast
    /\ UNCHANGED varsOwn
    /\ UNCHANGED varsBle
    /\ UNCHANGED varsDevice

(***************************************************************************)
(* PDGCarDevice.connect and PDGCarDevice.disconnect of the device of car A, *)
(* step by step between their awaits, called by concurrent tasks.           *)
(***************************************************************************)
NoClient == 0
MaxClients == 3

\* The values connect_to_device passes for retries.
ConnectRetries == {2, 3}

\* The classes of error message the except clause of connect distinguishes.
ErrorClasses == {"inprogress", "connection abort", "failed", "device not found",
                 "other"}

\* The backoff delay of the except clause, in tenths of a second.
delay(error, attempt) ==
    CASE error = "inprogress"       -> 30 + attempt * 5
      [] error = "connection abort" -> 20 + attempt * 10
      [] error = "failed"           -> 15 + attempt * 5
      [] error = "device not found" -> 40
      [] OTHER                      -> 10 + attempt * 5

DeviceCall(op, pc, attempt, retries, ref, error, slept, returned) ==
    [op |-> op, pc |-> pc, attempt |-> attempt, retries |-> retries, ref |-> ref,
     error |-> error, slept |-> slept, returned |-> returned]

\* No call in progress; returned is what the latest call returned.
DeviceReturned(returned) ==
    DeviceCall(None, "idle", 0, 0, NoClient, None, 0, returned)

InitDevice(connected) ==
    /\ client = IF connected THEN 1 ELSE NoClient
    /\ link_open = IF connected THEN {1} ELSE {}
    /\ clients_created = IF connected THEN 1 ELSE 0
    /\ device_call = [t \in Tasks |-> DeviceReturned(None)]

varsBleService == <<current_phase, ble_operation_lock, lock_waiters, task,
                    phase_event, ble_log, drive_args, call_counts>>

\* self.client = BleakClient(...) and the call of its __aenter__.
new_client(t, call) ==
    /\ clients_created < MaxClients
    /\ clients_created' = clients_created + 1
    /\ client' = clients_created + 1
    /\ device_call' = [device_call EXCEPT ![t] =
                          [call EXCEPT !.pc = "aenter", !.ref = clients_created + 1]]

\* _clear_system_connections before the attempts, with self.client None and
\* the links `links` open: hcitool drops every link to the address and the
\* call sleeps; with no link it returns at once and the first attempt starts.
enter_loop(t, call, links) ==
    IF links # {}
    THEN /\ link_open' = {}
         /\ client' = NoClient
         /\ device_call' = [device_call EXCEPT ![t] = [call EXCEPT !.pc = "clear"]]
         /\ UNCHANGED clients_created
    ELSE /\ link_open' = links
         /\ new_client(t, [call EXCEPT !.attempt = 1])

\* connect(retries) is called: a previous client is closed first.
DeviceConnect(t, retries) ==
    /\ device_call[t].pc = "idle"
    /\ LET call == DeviceCall("connect", "idle", 0, retries, NoClient, None, 0, None)
       IN  IF client # NoClient
           THEN /\ device_call' = [device_call EXCEPT ![t] =
                       [call EXCEPT !.pc = "close_previous", !.ref = client]]
                /\ UNCHANGED <<client, link_open, clients_created>>
           ELSE enter_loop(t, call, link_open)
    /\ UNCHANGED is_connected
    /\ UNCHANGED varsBleService
    /\ UNCHANGED varsOwn
    /\ UNCHANGED varsGame

\* The __aexit__ of the previous client returns or raises.
ClosePreviousDone(t) ==
    /\ device_call[t].pc = "close_previous"
    /\ is_connected' = [is_connected EXCEPT ![AddrA] = FALSE]
    /\ enter_loop(t, device_call[t], link_open \ {device_call[t].ref})
    /\ UNCHANGED varsBleService
    /\ UNCHANGED varsOwn
    /\ UNCHANGED varsGame

\* The sleeps of _clear_system_connections before the attempts are over.
SystemClearDone(t) ==
    /\ device_call[t].pc = "clear"
    /\ new_client(t, [device_call[t] EXCEPT !.attempt = 1])
    /\ UNCHANGED <<link_open, is_connected>>
    /\ UNCHANGED varsBleService
    /\ UNCHANGED varsOwn
    /\ UNCHANGED varsGame

\* The 0.5 s sleep before an attempt after the first is over.
RetrySleepDone(t) ==
    /\ device_call[t].pc = "attempt_sleep"
    /\ new_client(t, device_call[t])
    /\ UNCHANGED <<link_open, is_connected>>
    /\ UNCHANGED varsBleService
    /\ UNCHANGED varsOwn
    /\ UNCHANGED varsGame

\* The except clause of connect after its client was cleaned up: the backoff
\* sleep of the error class starts.
start_backoff(call) ==
    [call EXCEPT !.pc = "backoff", !.slept = delay(call.error, call.attempt)]

\* wait_for(__aenter__) returns, or raises an error of class error; the
\* except clause closes whatever self.client is now.
AenterDone(t, connected, error) ==
    /\ device_call[t].pc = "aenter"
    /\ IF connected
       THEN /\ link_open' = link_open \cup {device_call[t].ref}
            /\ device_call' = [device_call EXCEPT ![t].pc = "stabilize"]
       ELSE /\ link_open' = link_open
            /\ device_call' = [device_call EXCEPT ![t] =
                   IF client # NoClient
                   THEN [@ EXCEPT !.pc = "close_failed", !.ref = client,
                                  !.error = error]
                   ELSE start_backoff([@ EXCEPT !.error = error])]
    /\ UNCHANGED <<client, clients_created, is_connected>>
    /\ UNCHANGED varsBleService
    /\ UNCHANGED varsOwn
    /\ UNCHANGED varsGame

\* The stabilization sleep is over: is_connected = True, then the reads of
\* the device id and of Status through self.client.
StabilizeDone(t) ==
    /\ device_call[t].pc = "stabilize"
    /\ is_connected' = [is_connected EXCEPT ![AddrA] = TRUE]
    /\ device_call' = [device_call EXCEPT ![t] =
           IF client # NoClient THEN [@ EXCEPT !.pc = "verify"]
           ELSE DeviceReturned("True")]
    /\ UNCHANGED <<client, link_open, clients_created>>
    /\ UNCHANGED varsBleService
    /\ UNCHANGED varsOwn
    /\ UNCHANGED varsGame

\* The reads return or raise; connect returns True.
InitialReadsDone(t) ==
    /\ device_call[t].pc = "verify"
    /\ device_call' = [device_call EXCEPT ![t] = DeviceReturned("True")]
    /\ UNCHANGED <<client, link_open, clients_created, is_connected>>
    /\ UNCHANGED varsBleService
    /\ UNCHANGED varsOwn
    /\ UNCHANGED varsGame

\* The __aexit__ of the except clause returns or raises.
CloseFailedDone(t) ==
    /\ device_call[t].pc = "close_failed"
    /\ link_open' = link_open \ {device_call[t].ref}
    /\ client' = NoClient
    /\ device_call' = [device_call EXCEPT ![t] = start_backoff(@)]
    /\ UNCHANGED <<clients_created, is_connected>>
    /\ UNCHANGED varsBleService
    /\ UNCHANGED varsOwn
    /\ UNCHANGED varsGame

\* The end of the except clause: with attempts left the loop goes on, else
\* is_connected = False and connect returns False.
end_of_attempt(t) ==
    IF device_call[t].attempt < device_call[t].retries
    THEN /\ device_call' = [device_call EXCEPT ![t] =
                [@ EXCEPT !.pc = "attempt_sleep", !.attempt = @ + 1]]
         /\ UNCHANGED is_connected
    ELSE /\ device_call' = [device_call EXCEPT ![t] = DeviceReturned("False")]
         /\ is_connected' = [is_connected EXCEPT ![AddrA] = FALSE]

\* The backoff sleep is over; for the abort class _clear_system_connections
\* follows.
BackoffDone(t) ==
    /\ device_call[t].pc = "backoff"
    /\ IF device_call[t].error = "connection abort" /\ link_open # {}
       THEN /\ link_open' = {}
            /\ device_call' = [device_call EXCEPT ![t].pc = "backoff_clear"]
            /\ UNCHANGED is_connected
       ELSE /\ link_open' = link_open
            /\ end_of_attempt(t)
    /\ UNCHANGED <<client, clients_created>>
    /\ UNCHANGED varsBleService
    /\ UNCHANGED varsOwn
    /\ UNCHANGED varsGame

\* The sleeps of the _clear_system_connections of the abort class are over.
BackoffClearDone(t) ==
    /\ device_call[t].pc = "backoff_clear"
    /\ end_of_attempt(t)
    /\ UNCHANGED <<client, link_open, clients_created>>
    /\ UNCHANGED varsBleService
    /\ UNCHANGED varsOwn
    /\ UNCHANGED varsGame

\* disconnect() is called with a client and is_connected.
DeviceDisconnect(t) ==
    /\ device_call[t].pc = "idle"
    /\ client # NoClient
    /\ is_connected[AddrA]
    /\ device_call' = [device_call EXCEPT ![t] =
           DeviceCall("disconnect", "aexit", 0, 0, client, None, 0, None)]
    /\ UNCHANGED <<client, link_open, clients_created, is_connected>>
    /\ UNCHANGED varsBleService
    /\ UNCHANGED varsOwn
    /\ UNCHANGED varsGame

\* The __aexit__ of disconnect returns, and _clear_system_connections
\* follows, or it raises; the finally clause sets self.client = None.
AexitDone(t, raised) ==
    /\ device_call[t].pc = "aexit"
    /\ is_connected' = [is_connected EXCEPT ![AddrA] = FALSE]
    /\ IF ~raised /\ link_open \ {device_call[t].ref} # {}
       THEN /\ link_open' = {}
            /\ device_call' = [device_call EXCEPT ![t].pc = "disconnect_clear"]
            /\ UNCHANGED client
       ELSE /\ link_open' = IF raised THEN link_open
                            ELSE link_open \ {device_call[t].ref}
            /\ client' = NoClient
            /\ device_call' = [device_call EXCEPT ![t] = DeviceReturned(None)]
    /\ UNCHANGED clients_created
    /\ UNCHANGED varsBleService
    /\ UNCHANGED varsOwn
    /\ UNCHANGED varsGame

\* The sleeps of the _clear_system_connections of disconnect are over.
DisconnectClearDone(t) ==
    /\ device_call[t].pc = "disconnect_clear"
    /\ client' = NoClient
    /\ device_call' = [device_call EXCEPT ![t] = DeviceReturned(None)]
    /\ UNCHANGED <<link_open, clients_created, is_connected>>
    /\ UNCHANGED varsBleService
    /\ UNCHANGED varsOwn
    /\ UNCHANGED varsGame

\* The car drops the GATT link of client c: it is switched off or out of
\* range.  No code of the device runs.
LinkLoss(c) ==
    /\ c \in link_open
    /\ link_open' = link_open \ {c}
    /\ UNCHANGED <<client, clients_created, device_call, is_connected>>
    /\ UNCHANGED varsBleService
    /\ UNCHANGED varsOwn
    /\ UNCHANGED varsGame

\* main starts the server with start_server_with_cars: no game manager, no
\* broadcast function, no monitor.
InitNoGame ==
    /\ game_manager = NewGameManager(FALSE)
    /\ broadcast = [S \in Sessions |-> NoBroadcast]
    /\ monitor_log = None

InitOwn ==
    /\ cars = <<>>
    /\ active_connections = {}
    /\ conn = [S \in Sessions |-> "none"]
    /\ drive_tasks = <<>>
    /\ discovered_devices = {}
    /\ response = NoReply
    /\ ble_issued = {}
    /\ select_car_returned = NoReturn
    /\ InitNoGame

InitBle ==
    /\ current_phase = "scan"
    /\ ble_operation_lock = NoTask
    /\ lock_waiters = <<>>
    /\ task = [t \in Tasks |-> Idle]
    /\ is_connected = [d \in BleDevices |-> FALSE]
    /\ InitDevice(FALSE)
    /\ phase_event = None
    /\ ble_log = None
    /\ drive_args = [t \in Tasks |-> <<>>]
    /\ call_counts = [t \in Tasks |-> NoCalls]

Init == InitOwn /\ InitBle

Next ==
    \/ \E S \in Sessions : Connect(S)
    \/ \E S \in Sessions : TransportClose(S)
    \/ \E S \in Sessions : SessionEnd(S)
    \/ \E seen \in SeenOrders : DiscoverCars(seen)
    \/ SelectCarMessage
    \/ FreeCarMessage
    \/ MoveCarMessage
    \/ DriveTaskRun

Spec == Init /\ [][Next]_vars

\* The event loop resumes the coroutine of a closed transport: its receive
\* raises and the finally clause runs.
FairSpec == Spec /\ \A S \in Sessions : WF_vars(SessionEnd(S))

NextPass ==
    \/ \E S \in Sessions : Connect(S)
    \/ \E seen \in SeenOrders : DiscoverCars(seen)
    \/ SelectCarMessage
    \/ FreeCarMessage
    \/ SendToCarMessage
    \/ ConnectToCarMessage

PassSpec == Init /\ [][NextPass]_vars

NextBle ==
    \/ \E t \in Tasks : StartScanPhase(t)
    \/ \E t \in Tasks : LockGranted(t)
    \/ \E t \in Tasks, healthy \in BOOLEAN : HealthCheckDone(t, healthy)
    \/ \E t \in Tasks, seen \in ScanResults : ScanComplete(t, seen)
    \/ SwitchToControlPhase
    \/ \E t \in Tasks, address \in BleDevices : ConnectToCar(t, address)
    \/ \E t \in Tasks, address \in BleDevices : SetDriveOnCar(t, address)
    \/ \E t \in Tasks, address \in BleDevices : SendToCar(t, address)
    \/ \E t \in Tasks, responsive \in BOOLEAN : StatusReadDone(t, responsive)
    \/ \E t \in Tasks, found \in BOOLEAN : FreshScanDone(t, found)
    \/ \E t \in Tasks, connected \in BOOLEAN : ConnectAttemptDone(t, connected)
    \/ \E t \in Tasks : VerifyDone(t)
    \/ \E t \in Tasks : ResetDone(t)
    \/ \E t \in Tasks : RescanDone(t)
    \/ \E t \in Tasks, written \in BOOLEAN : WriteDone(t, written)

BleSpec == Init /\ [][NextBle]_vars

SteeringMoveCarMessage ==
    \E S \in Sessions, c \in CarIdInputs, m \in SteeringInputs :
        handle_message(S, [action |-> "move_car", car |-> c, move |-> m.move,
                           x |-> m.x, boost |-> m.boost])

NextMove ==
    \/ \E S \in Sessions : Connect(S)
    \/ \E seen \in ScanResults : DiscoverCars(seen)
    \/ SelectCarMessage
    \/ SteeringMoveCarMessage
    \/ DriveTaskRun

MoveSpec == Init /\ [][NextMove]_vars

\* The state after: a scan saw car A and the phase is control, the device is
\* connected, session 1 has selected the car and its move_car with an input
\* of DriveInputs has been handled (the drive task is pending).
InitDrive ==
    \E m \in DriveInputs :
        LET c == generate_car_id_from_ble_name(NameA)
            boost_bool == (m.boost = "true")
            registered == add_or_update_car_from_ble(<<>>, NameA, AddrA)
            selected == select_car(registered, c, 1).cars
        IN  /\ cars = update_car_status(selected, c, m.move, m.x, boost_bool)
            /\ active_connections = {1}
            /\ conn = [S \in Sessions |-> IF S = 1 THEN "open" ELSE "none"]
            /\ drive_tasks = <<DriveTask(c, m.move, m.x, boost_bool)>>
            /\ discovered_devices = {AddrA}
            /\ response = Reply("success", "move_car",
                                "command received and executed", "true")
            /\ ble_issued = {}
            /\ select_car_returned = <<TRUE, "successfully selected">>
            /\ InitNoGame
            /\ current_phase = "control"
            /\ ble_operation_lock = NoTask
            /\ lock_waiters = <<>>
            /\ task = [t \in Tasks |-> Idle]
            /\ is_connected = [d \in BleDevices |-> TRUE]
            /\ InitDevice(TRUE)
            /\ phase_event = "control"
            /\ ble_log = None
            /\ drive_args = [t \in Tasks |-> <<>>]
            /\ call_counts = [t \in Tasks |-> NoCalls]
    /\ call_counts = [t \in Tasks |-> NoCalls]

NextDrive ==
    \/ \E S \in Sessions : TransportClose(S)
    \/ \E S \in Sessions : SessionEnd(S)
    \/ \E t \in Tasks : SendBluetoothCommand(t)
    \/ \E t \in Tasks, written \in BOOLEAN : WriteDone(t, written)

DriveSpec == InitDrive /\ [][NextDrive]_vars

\* The state after a scan saw car A and the device was connected: the phase
\* is control and no session is connected.
InitClamp ==
    /\ cars = add_or_update_car_from_ble(<<>>, NameA, AddrA)
    /\ active_connections = {}
    /\ conn = [S \in Sessions |-> "none"]
    /\ drive_tasks = <<>>
    /\ discovered_devices = {AddrA}
    /\ response = NoReply
    /\ ble_issued = {}
    /\ select_car_returned = NoReturn
    /\ InitNoGame
    /\ current_phase = "control"
    /\ ble_operation_lock = NoTask
    /\ lock_waiters = <<>>
    /\ task = [t \in Tasks |-> Idle]
    /\ is_connected = [d \in BleDevices |-> TRUE]
    /\ InitDevice(TRUE)
    /\ phase_event = "control"
    /\ ble_log = None
    /\ drive_args = [t \in Tasks |-> <<>>]
    /\ call_counts = [t \in Tasks |-> NoCalls]

\* set_drive_on_car called with any integers.
SetDriveOnCarWithIntegers(t, address) ==
    /\ \E args \in IntegerDriveArgs : set_drive_on_car(t, address, args)
    /\ UNCHANGED varsOwn
    /\ UNCHANGED varsGame
    /\ UNCHANGED varsDevice

NextClamp ==
    \/ \E t \in Tasks, address \in BleDevices : SetDriveOnCarWithIntegers(t, address)
    \/ \E t \in Tasks, written \in BOOLEAN : WriteDone(t, written)

ClampSpec == InitClamp /\ [][NextClamp]_vars

(***************************************************************************)
(* Claims on ownership and the dispatcher                                  *)
(***************************************************************************)
owner(cs, c) == IF c \in DOMAIN cs THEN cs[c].websocket_id ELSE Unassigned

SelectCarBy(S, c) == handle_message(S, [action |-> "select_car", car |-> c])
FreeCarBy(S, c) == handle_message(S, [action |-> "free_car", car |-> c])
MoveCarBy(S, c, m) ==
    handle_message(S, [action |-> "move_car", car |-> c, move |-> m.move,
                       x |-> m.x, boost |-> m.boost])
SendToCarBy(S, c) == handle_message(S, [action |-> "send_to_car", car |-> c])
ConnectToCarBy(S, c) == handle_message(S, [action |-> "connect_to_car", car |-> c])

\* C1 Exclusive ownership: in every state each car is held by at most one
\* session, and a select_car by S2 of a car whose owner is another session S
\* is answered with the error "already selected by another client" and leaves
\* the owner S.
C1_ExclusiveOwnership ==
    /\ [](\A c \in DOMAIN cars :
            Cardinality({ S \in Sessions : c \in get_cars_by_websocket(cars, S) }) <= 1)
    /\ [][ \A S2 \in Sessions, c \in CarIdInputs :
             ( /\ SelectCarBy(S2, c)
               /\ has_car(cars, c)
               /\ cars[c].websocket_id \notin {Unassigned, S2} )
             => ( /\ response' = Reply("error", "select_car",
                                       "already selected by another client", None)
                  /\ has_car(cars', c)
                  /\ cars'[c].websocket_id = cars[c].websocket_id ) ]_vars

\* A second session was refused a car that the first one holds.
C1_Witness ==
    /\ response = Reply("error", "select_car", "already selected by another client", None)
    /\ \E c \in DOMAIN cars : cars[c].websocket_id \in Sessions
    /\ \A S \in Sessions : conn[S] = "open"

\* C2 Release on disconnect: once the transport of session S has closed its
\* coroutine ends (cleanup runs), and from the end of S on no car has owner S
\* and S is no longer registered, so the cars S held can be selected again.
C2_ReleaseOnDisconnect ==
    /\ \A S \in Sessions : [](conn[S] = "closed" => <>(conn[S] = "ended"))
    /\ [](\A S \in Sessions :
            conn[S] = "ended" =>
                /\ get_cars_by_websocket(cars, S) = {}
                /\ S \notin active_connections)
    /\ [][ \A S \in Sessions :
             (conn[S] = "closed" /\ conn'[S] = "ended") =>
                 \A c \in DOMAIN cars :
                     cars[c].websocket_id = S =>
                         /\ has_car(cars', c)
                         /\ \A S2 \in Sessions \ {S} :
                                select_car(cars', c, S2).success ]_vars

\* Session 1 has ended and session 2 holds every car of the registry, two of
\* them.
C2_Witness ==
    /\ conn[1] = "ended"
    /\ Cardinality(DOMAIN cars) = 2
    /\ \A c \in DOMAIN cars : cars[c].websocket_id = 2

\* C3 Owner transitions: the owner of a car id changes only from Unassigned
\* to S by a select_car of S, or from S to Unassigned by a free_car or by the
\* end of session S.
C3_OwnerTransitions ==
    [][ \A c \in CarIds :
          owner(cars, c) # owner(cars', c) =>
              \E S \in Sessions :
                  \/ /\ owner(cars, c) = Unassigned
                     /\ owner(cars', c) = S
                     /\ SelectCarBy(S, c)
                  \/ /\ owner(cars, c) = S
                     /\ owner(cars', c) = Unassigned
                     /\ \/ \E S2 \in Sessions : FreeCarBy(S2, c)
                        \/ SessionEnd(S) ]_vars

\* C8 A move_car of session S for a car whose owner is another session is
\* answered with an error, schedules no drive task and leaves the registry
\* (the cached move, x and boost of every car) as it was.
C8_MoveCarOfAnotherOwner ==
    [][ \A S \in Sessions, c \in CarIdInputs, m \in MoveInputs :
          ( /\ MoveCarBy(S, c, m)
            /\ has_car(cars, c)
            /\ cars[c].websocket_id \notin {Unassigned, S} )
          => ( /\ response'.status = "error"
               /\ response'.action = "move_car"
               /\ drive_tasks' = drive_tasks
               /\ cars' = cars ) ]_vars

\* A move_car was refused because the car is controlled by another client.
C8_Witness ==
    /\ response = Reply("error", "move_car", "controlled by another client", None)
    /\ \E c \in DOMAIN cars : cars[c].websocket_id \in Sessions

\* C9 move_car requires ownership: a move_car of session S for a car that S
\* does not own (Unassigned, another session's, or unknown) changes no cached
\* state and schedules no drive task.
C9_MoveCarRequiresOwnership ==
    [][ \A S \in Sessions, c \in CarIdInputs, m \in MoveInputs :
          ( MoveCarBy(S, c, m) /\ owner(cars, c) # S )
          => ( cars' = cars /\ drive_tasks' = drive_tasks ) ]_vars

\* C10 send_to_car and connect_to_car require ownership: a request of session
\* S for a car that S does not own is answered with an error and issues no
\* BLE connect attempt and no GATT write.
C10_SendToCarRequiresOwnership ==
    [][ \A S \in Sessions, c \in CarIds :
          ( /\ SendToCarBy(S, c) \/ ConnectToCarBy(S, c)
            /\ has_car(cars, c)
            /\ cars[c].websocket_id # S )
          => ( response'.status = "error" /\ ble_issued' = {} ) ]_vars

(***************************************************************************)
(* Claims on the phases and the adapter lock                               *)
(***************************************************************************)
\* The task runs a discovery scan, a fresh-reference scan, a GATT connect
\* attempt or an adapter reset.
AdapterOp(t) == task[t].pc \in {"scan", "fresh_scan", "rescan", "connect", "reset"}

\* C4 Phase gating: no GATT read or write in flight was issued while
\* current_phase was "scan".
C4_PhaseGating == \A t \in Tasks : task[t].gatt # "scan"

\* C5 Single adapter operation: a task that runs a scan, a connect attempt or
\* an adapter reset holds ble_operation_lock, and no two tasks run such
\* operations at the same time.
C5_SingleAdapterOperation ==
    /\ \A t \in Tasks : AdapterOp(t) => ble_operation_lock = t
    /\ \A t1, t2 \in Tasks : (AdapterOp(t1) /\ AdapterOp(t2)) => t1 = t2

\* C6 connect_to_device called for a discovered device while current_phase is
\* "scan" returns at once with the log "Connection blocked": the lock and its
\* waiters are as before, no task has started a scan, a connect attempt or a
\* reset, and is_connected is unchanged.
C6_ConnectRejectedInScanPhase ==
    [][ \A t \in Tasks, address \in BleDevices :
          ( ConnectToCar(t, address) /\ current_phase = "scan" )
          => ( /\ ble_log' = "Connection blocked: currently in scan phase"
               /\ ble_operation_lock' = ble_operation_lock
               /\ lock_waiters' = lock_waiters
               /\ task' = task
               /\ is_connected' = is_connected ) ]_vars

\* A connect was refused in the scan phase while no task held the lock.
C6_Witness ==
    /\ ble_log = "Connection blocked: currently in scan phase"
    /\ current_phase = "scan"
    /\ AddrA \in discovered_devices
    /\ ble_operation_lock = NoTask
    /\ \A t \in Tasks : task[t] = Idle

\* C7 When the scan of start_scan_phase completes, current_phase is
\* "control" if and only if the scan saw at least one car.
C7_PhaseAtScanCompletion ==
    [][ \A t \in Tasks, seen \in ScanResults :
          ScanComplete(t, seen) =>
              (current_phase' = "control" <=> seen # <<>>) ]_vars

(***************************************************************************)
(* Claims on the drive path                                                *)
(***************************************************************************)
\* C11 Drive translation: the drive task of a move_car (move, x, boost) calls
\* set_drive_on_car with x unchanged, y = 50 / -50 / 0 for forward / backward
\* / stopped, speed = 100 with boost and else 50 for forward and backward and
\* 0 for stopped, decay = 1 with boost and else 0; and every write of the
\* call carries the argument of its characteristic.
C11_DriveTranslation ==
    /\ [](\A t \in Tasks :
            drive_write_in_flight(t) =>
                gatt_write(t) = drive_args[t][DriveChars[task[t].pc]])
    /\ [][ \A t \in Tasks :
             ( SendBluetoothCommand(t) /\ task'[t].op = "set_drive_on_car" )
             => LET d == Head(drive_tasks)
                IN  drive_args'[t] =
                      << d.x,
                         IF d.move = "forward" THEN 50
                         ELSE IF d.move = "backward" THEN -50 ELSE 0,
                         IF d.boost THEN 100
                         ELSE IF d.move \in {"forward", "backward"} THEN 50 ELSE 0,
                         IF d.boost THEN 1 ELSE 0 >> ]_vars

\* The last write of the drive task of (forward, -30, true): after X = -30,
\* Y = 50 and Speed = 100, Decay = 1 is in flight.
C11_Witness ==
    \E t \in Tasks :
        /\ drive_write_in_flight(t)
        /\ task[t].pc = "write_decay"
        /\ drive_args[t] = <<-30, 50, 100, 1>>
        /\ gatt_write(t) = 1
        /\ \E c \in DOMAIN cars :
              cars[c].move = "forward" /\ cars[c].x = -30 /\ cars[c].boost

C13_DriveWriteOrder ==
    [][ \A t \in Tasks :
          /\ ( /\ task'[t].op = "set_drive_on_car"
               /\ task'[t].pc \in DOMAIN DriveChars
               /\ task'[t].pc # task[t].pc )
             => \/ task'[t].pc = "write_x" /\ task[t].pc \notin DOMAIN DriveChars
                \/ /\ WriteDone(t, TRUE)
                   /\ <<task[t].pc, task'[t].pc>> \in
                        { <<"write_x", "write_y">>, <<"write_y", "write_speed">>,
                          <<"write_speed", "write_decay">> }
          /\ ( task[t].op = "set_drive_on_car" /\ WriteDone(t, FALSE) )
             => /\ task'[t] = Idle
                /\ ble_log' = "Error sending drive params"
                /\ \A u \in Tasks \ {t} : task'[u] = task[u] ]_vars

\* A write of the only drive task raised: the error is logged, no task is
\* writing and no drive task is pending.
C13_Witness ==
    /\ ble_log = "Error sending drive params"
    /\ drive_tasks = <<>>
    /\ \A t \in Tasks : task[t] = Idle

\* C14 Drive clamp: whatever integers set_drive is given, the value of every
\* write in flight lies in the domain of its characteristic: Dir X and Dir Y
\* in [-100, 100], Dir Speed in [0, 100], Decay in {0, 1}.
C14_DriveClamp ==
    \A t \in Tasks :
        drive_write_in_flight(t) =>
            CASE task[t].pc = "write_x" -> gatt_write(t) \in -100..100
              [] task[t].pc = "write_y" -> gatt_write(t) \in -100..100
              [] task[t].pc = "write_speed" -> gatt_write(t) \in 0..100
              [] task[t].pc = "write_decay" -> gatt_write(t) \in {0, 1}

\* C15 Unschedulable drive: a move_car of the owner S that is accepted while
\* the BLE drive cannot be scheduled (the phase is not control, or the car's
\* address is not among the discovered devices) is answered with status
\* success and bluetooth_command_sent false, and still updates the cached
\* state of the car.
C15_UnschedulableDrive ==
    [][ \A S \in Sessions, c \in CarIds, m \in MoveInputs :
          ( /\ MoveCarBy(S, c, m)
            /\ owner(cars, c) = S
            /\ m.x \in -100..100
            /\ \/ ~is_in_control_phase
               \/ cars[c].ble_address \notin discovered_devices )
          => ( /\ response'.status = "success"
               /\ response'.bluetooth_command_sent = "false"
               /\ cars' = update_car_status(cars, c, m.move, m.x, m.boost = "true") ) ]_vars

\* C16 Session end drops pending drive tasks: when the session whose move_car
\* scheduled the pending drive task has ended and the car of the task is
\* Unassigned, the task aborts when it runs: it starts no GATT drive write.
C16_SessionEndDropsDriveTasks ==
    [][ \A t \in Tasks :
          ( /\ SendBluetoothCommand(t)
            /\ \E S \in Sessions : conn[S] = "ended"
            /\ owner(cars, Head(drive_tasks).car_id) = Unassigned )
          => ( task'[t] = Idle /\ \A u \in Tasks : ~drive_write_in_flight(u)' ) ]_vars

\* The state after a scan saw car A and the phase was switched to control: no
\* device is connected yet.
InitConnect ==
    /\ cars = add_or_update_car_from_ble(<<>>, NameA, AddrA)
    /\ active_connections = {}
    /\ conn = [S \in Sessions |-> "none"]
    /\ drive_tasks = <<>>
    /\ discovered_devices = {AddrA}
    /\ response = NoReply
    /\ ble_issued = {}
    /\ select_car_returned = NoReturn
    /\ InitNoGame
    /\ current_phase = "control"
    /\ ble_operation_lock = NoTask
    /\ lock_waiters = <<>>
    /\ task = [t \in Tasks |-> Idle]
    /\ is_connected = [d \in BleDevices |-> FALSE]
    /\ InitDevice(FALSE)
    /\ phase_event = "control"
    /\ ble_log = None
    /\ drive_args = [t \in Tasks |-> <<>>]
    /\ call_counts = [t \in Tasks |-> NoCalls]

\* connect_to_device calls only.
NextConnect ==
    \/ \E t \in Tasks, address \in BleDevices : ConnectToCar(t, address)
    \/ \E t \in Tasks : LockGranted(t)
    \/ \E t \in Tasks, responsive \in BOOLEAN : StatusReadDone(t, responsive)
    \/ \E t \in Tasks, found \in BOOLEAN : FreshScanDone(t, found)
    \/ \E t \in Tasks, connected \in BOOLEAN : ConnectAttemptDone(t, connected)
    \/ \E t \in Tasks : VerifyDone(t)
    \/ \E t \in Tasks : ResetDone(t)
    \/ \E t \in Tasks : RescanDone(t)

\* Every await of the connect flow returns or raises: the scans and sleeps are
\* timed, a connect attempt is under wait_for(12 s), and a task that was
\* handed the lock is resumed by the event loop.
ConnectSpec ==
    /\ InitConnect
    /\ [][NextConnect]_vars
    /\ \A t \in Tasks :
          /\ WF_vars(LockGranted(t))
          /\ WF_vars(\E responsive \in BOOLEAN : StatusReadDone(t, responsive))
          /\ WF_vars(\E found \in BOOLEAN : FreshScanDone(t, found))
          /\ WF_vars(\E connected \in BOOLEAN : ConnectAttemptDone(t, connected))
          /\ WF_vars(VerifyDone(t))
          /\ WF_vars(ResetDone(t))
          /\ WF_vars(RescanDone(t))

\* Every await of the BLE operations returns or raises: scans and sleeps are
\* timed, GATT calls have the timeout of their client, and a task that was
\* handed the lock is resumed by the event loop.
LockSpec ==
    /\ BleSpec
    /\ \A t \in Tasks :
          /\ WF_vars(LockGranted(t))
          /\ WF_vars(\E healthy \in BOOLEAN : HealthCheckDone(t, healthy))
          /\ WF_vars(\E seen \in ScanResults : ScanComplete(t, seen))
          /\ WF_vars(\E responsive \in BOOLEAN : StatusReadDone(t, responsive))
          /\ WF_vars(\E found \in BOOLEAN : FreshScanDone(t, found))
          /\ WF_vars(\E connected \in BOOLEAN : ConnectAttemptDone(t, connected))
          /\ WF_vars(VerifyDone(t))
          /\ WF_vars(ResetDone(t))
          /\ WF_vars(RescanDone(t))
          /\ WF_vars(\E written \in BOOLEAN : WriteDone(t, written))

\* The sessions of the game specification: one more than Sessions, for a
\* requester, a session whose transport fails and one that connects late.
GameSessions == 1..(NumSessions + 1)

\* The game inputs of the broadcast specification: each game action, and a
\* goal for a team that does not exist.
BroadcastInputs ==
    { d \in GameInputs : ~d.match_length_given /\ d.team \in {None, "green"} } \cup
    { d \in GameInputs : d.team = "red" }

\* The server after start_server_with_managers: a scan has registered car A,
\* the sessions of Sessions are connected and one of them, or none, has
\* selected the car; the last session has not connected yet.
InitBroadcast ==
    /\ \E selected_by \in Sessions \cup {Unassigned} :
          cars = LET registered == add_or_update_car_from_ble(<<>>, NameA, AddrA)
                 IN  IF selected_by = Unassigned THEN registered
                     ELSE select_car(registered,
                                     generate_car_id_from_ble_name(NameA),
                                     selected_by).cars
    /\ active_connections = Sessions
    /\ conn = [S \in GameSessions |-> IF S \in Sessions THEN "open" ELSE "none"]
    /\ drive_tasks = <<>>
    /\ discovered_devices = {AddrA}
    /\ response = NoReply
    /\ ble_issued = {}
    /\ select_car_returned = NoReturn
    /\ InitBle
    /\ game_manager = NewGameManager(TRUE)
    /\ broadcast = [S \in GameSessions |-> NoBroadcast]
    /\ monitor_log = None

NextBroadcast ==
    \/ \E S \in GameSessions : Connect(S)
    \/ \E S \in GameSessions : TransportClose(S)
    \/ \E S \in GameSessions : SessionEnd(S)
    \/ \E S \in GameSessions, data \in BroadcastInputs : GameMessage(S, data)
    \/ \E S \in GameSessions : BroadcastStep(S)

BroadcastSpec == InitBroadcast /\ [][NextBroadcast]_vars

\* The server after start_server_with_cars (main) or
\* start_server_with_managers; the sessions connect and play a game against
\* the clock.
InitGame ==
    /\ cars = add_or_update_car_from_ble(<<>>, NameA, AddrA)
    /\ active_connections = {}
    /\ conn = [S \in Sessions |-> "none"]
    /\ drive_tasks = <<>>
    /\ discovered_devices = {AddrA}
    /\ response = NoReply
    /\ ble_issued = {}
    /\ select_car_returned = NoReturn
    /\ InitBle
    /\ \E set \in BOOLEAN : game_manager = NewGameManager(set)
    /\ broadcast = [S \in Sessions |-> NoBroadcast]
    /\ monitor_log = None

NextGame ==
    \/ \E S \in Sessions : Connect(S)
    \/ \E S \in Sessions, data \in GameInputs : GameMessage(S, data)
    \/ \E S \in Sessions : BroadcastStep(S)
    \/ Tick
    \/ game_time_monitor

GameSpec == InitGame /\ [][NextGame]_vars

\* The state after a scan saw car A: the device exists, not connected.
InitDeviceCalls == InitConnect

NextDevice ==
    \/ \E t \in Tasks, retries \in ConnectRetries : DeviceConnect(t, retries)
    \/ \E t \in Tasks : ClosePreviousDone(t)
    \/ \E t \in Tasks : SystemClearDone(t)
    \/ \E t \in Tasks : RetrySleepDone(t)
    \/ \E t \in Tasks, connected \in BOOLEAN, error \in ErrorClasses :
          AenterDone(t, connected, error)
    \/ \E t \in Tasks : StabilizeDone(t)
    \/ \E t \in Tasks : InitialReadsDone(t)
    \/ \E t \in Tasks : CloseFailedDone(t)
    \/ \E t \in Tasks : BackoffDone(t)
    \/ \E t \in Tasks : BackoffClearDone(t)
    \/ \E t \in Tasks : DeviceDisconnect(t)
    \/ \E t \in Tasks, raised \in BOOLEAN : AexitDone(t, raised)
    \/ \E t \in Tasks : DisconnectClearDone(t)
    \/ \E c \in 1..MaxClients : LinkLoss(c)

DeviceSpec == InitDeviceCalls /\ [][NextDevice]_vars

\* The state after a scan saw cars A and C, in the control phase, with any
\* of the two devices connected.
SweepDevices == {AddrA, AddrC}

InitSweep ==
    /\ cars = UpsertAll(<<>>, <<[name |-> NameA, address |-> AddrA],
                                [name |-> NameC, address |-> AddrC]>>)
    /\ active_connections = {}
    /\ conn = [S \in Sessions |-> "none"]
    /\ drive_tasks = <<>>
    /\ discovered_devices = SweepDevices
    /\ response = NoReply
    /\ ble_issued = {}
    /\ select_car_returned = NoReturn
    /\ InitNoGame
    /\ current_phase = "control"
    /\ ble_operation_lock = NoTask
    /\ lock_waiters = <<>>
    /\ task = [t \in Tasks |-> Idle]
    /\ \E connected \in SUBSET SweepDevices :
          is_connected = [d \in SweepDevices |-> d \in connected]
    /\ InitDevice(FALSE)
    /\ phase_event = "control"
    /\ ble_log = None
    /\ drive_args = [t \in Tasks |-> <<>>]
    /\ call_counts = [t \in Tasks |-> NoCalls]

NextSweep ==
    \/ \E t \in Tasks : StartScanPhase(t)
    \/ \E t \in Tasks : LockGranted(t)
    \/ \E t \in Tasks, healthy \in BOOLEAN : HealthCheckDone(t, healthy)
    \/ \E t \in Tasks, seen \in ScanResults : ScanComplete(t, seen)
    \/ \E t \in Tasks, address \in SweepDevices : ConnectToCar(t, address)
    \/ \E t \in Tasks, responsive \in BOOLEAN : StatusReadDone(t, responsive)
    \/ \E t \in Tasks, found \in BOOLEAN : FreshScanDone(t, found)
    \/ \E t \in Tasks, connected \in BOOLEAN : ConnectAttemptDone(t, connected)
    \/ \E t \in Tasks : VerifyDone(t)
    \/ \E t \in Tasks : ResetDone(t)
    \/ \E t \in Tasks : RescanDone(t)

SweepSpec == InitSweep /\ [][NextSweep]_vars

\* The drive task of the move_car handled last is pending, and session 1
\* goes on sending move_car messages.
NextOrder ==
    \/ SteeringMoveCarMessage
    \/ \E t \in Tasks : SendBluetoothCommand(t)
    \/ \E t \in Tasks, written \in BOOLEAN : WriteDone(t, written)

OrderSpec == InitDrive /\ [][NextOrder]_vars

\* The operations that call connect_to_device.
ConnectToDeviceOps == {"connect_to_device", "set_drive_on_car"}

\* C17 Connect flow ordering: in connect_to_device the adapter reset starts
\* only when the last attempt of connect(retries=3) has failed; the reset
\* (and the rescan after it) is followed by connect(retries=2), which starts
\* nowhere else; the call notifies "connected" exactly when it returns after
\* a connect that succeeded; and when the last attempt of connect(retries=2)
\* fails the call returns failure without "connected".
C17_ConnectFlowOrdering ==
    [][ \A t \in Tasks :
          ( task[t].op \in ConnectToDeviceOps /\ task'[t] # task[t] ) =>
            /\ task'[t].pc = "reset"
                 => /\ task[t].pc = "connect"
                    /\ task[t].retries = 3
                    /\ task[t].attempt = 3
                    /\ ~is_connected'[task[t].address]
            /\ task[t].pc = "reset"
                 => \/ task'[t] = connect(task[t], 2)
                    \/ task[t].fresh_device_found /\ task'[t].pc = "rescan"
            /\ task[t].pc = "rescan" => task'[t] = connect(task[t], 2)
            /\ ( task'[t].pc = "connect" /\ task'[t].retries = 2
                 /\ task[t].pc # "connect" )
                 => task[t].pc \in {"reset", "rescan"}
            /\ ( task[t].pc \in {"status", "connect", "verify"}
                 /\ task'[t].pc \notin {"fresh_scan"} \cup ConnectPcs )
                 => ( ble_log' = "Successfully connected" <=> task[t].pc = "verify" )
            /\ ( task[t].pc = "connect" /\ task[t].retries = 2
                 /\ task'[t].pc # "connect" /\ task'[t].pc # "verify" )
                 => /\ task'[t] = Idle
                    /\ ble_log' = "All connection attempts failed"
                    /\ ~is_connected'[task[t].address] ]_vars

\* The second connect, after the adapter reset, has succeeded.
C17_Witness ==
    \E t \in Tasks :
        /\ task[t].op = "connect_to_device"
        /\ task[t].pc = "verify"
        /\ task[t].retries = 2
        /\ call_counts[t].resets = 1

C19_RegistryKeying ==
    /\ [](\A a \in discovered_devices :
            Cardinality({ c \in DOMAIN cars : cars[c].ble_address = a }) = 1)
    /\ [][ \A seen \in SeenOrders :
             DiscoverCars(seen) =>
               \A c \in DOMAIN cars :
                  \E c2 \in DOMAIN cars' :
                     /\ cars'[c2].ble_address = cars[c].ble_address
                     /\ cars'[c2].websocket_id = cars[c].websocket_id ]_vars

\* C20 select_car is idempotent for the owner: in every registry the program
\* reaches, a select_car(c, S) that succeeds can be repeated, the repetition
\* succeeds and leaves the registry as the first call left it; and a
\* select_car message of the session that owns the car is answered with
\* success and changes nothing in the registry.
C20_SelectCarIdempotent ==
    /\ [](\A c \in CarIds, S \in Sessions :
            LET once == select_car(cars, c, S)
                twice == select_car(once.cars, c, S)
            IN  once.success => ( twice.success /\ twice.cars = once.cars ))
    /\ [][ \A S \in Sessions, c \in CarIds :
             ( SelectCarBy(S, c) /\ owner(cars, c) = S )
             => ( /\ response' = Reply("success", "select_car", None, None)
                  /\ select_car_returned' = <<TRUE, "already selected by this client">>
                  /\ cars' = cars ) ]_vars

\* The owner of a car has selected it again.
C20_Witness ==
    /\ select_car_returned = <<TRUE, "already selected by this client">>
    /\ response = Reply("success", "select_car", None, None)
    /\ \E c \in DOMAIN cars : cars[c].websocket_id \in Sessions

\* The websocket_id arguments of free_car: a session, or none supplied.
FreeCarCallers == Sessions \cup {Unassigned}

\* C21 free_car is idempotent: in every registry the program reaches, for
\* every existing car a free_car that succeeds can be repeated, the
\* repetition succeeds and leaves the registry as the first call left it; a
\* free_car without session id always succeeds; and freeing a car that is
\* free already succeeds and changes nothing, whatever session id is given.
C21_FreeCarIdempotent ==
    /\ [](\A c \in DOMAIN cars, S \in FreeCarCallers :
            LET once == free_car(cars, c, S)
                twice == free_car(once.cars, c, S)
            IN  /\ once.success => ( twice.success /\ twice.cars = once.cars )
                /\ S = Unassigned => once.success
                /\ cars[c].websocket_id = Unassigned
                     => ( once.success /\ once.cars = cars ))
    /\ [][ \A S \in Sessions, c \in CarIds :
             ( FreeCarBy(S, c) /\ has_car(cars, c)
               /\ cars[c].websocket_id = Unassigned )
             => ( /\ response' = Reply("success", "free_car", "already free", None)
                  /\ cars' = cars ) ]_vars

\* A free_car message for a car that is free already was answered, while
\* another car has an owner.
C21_Witness ==
    /\ response = Reply("success", "free_car", "already free", None)
    /\ \E c \in DOMAIN cars : cars[c].websocket_id = Unassigned
    /\ \E c \in DOMAIN cars : cars[c].websocket_id \in Sessions

\* C22 free_car errors: a free_car of session S for a car another session
\* owns is answered with the error "not selected by this client" and leaves
\* the registry; a free_car for an unknown car id is answered with the error
\* "not found" and leaves the registry; and free_car changes the registry only
\* when no session id is given or the given id is the owner, and then only
\* the owner of that car, to Unassigned.
C22_FreeCarErrors ==
    /\ [][ \A S \in Sessions, c \in CarIdInputs :
             FreeCarBy(S, c) =>
               /\ ( has_car(cars, c) /\ cars[c].websocket_id \notin {Unassigned, S} )
                    => ( /\ response' = Reply("error", "free_car",
                                              "not selected by this client", None)
                         /\ cars' = cars )
               /\ ~has_car(cars, c)
                    => ( /\ response' = Reply("error", "free_car", "not found", None)
                         /\ cars' = cars ) ]_vars
    /\ [](\A c \in CarIdInputs, S \in FreeCarCallers :
            LET r == free_car(cars, c, S)
            IN  r.cars # cars =>
                  /\ has_car(cars, c)
                  /\ S = Unassigned \/ cars[c].websocket_id = S
                  /\ r.cars = [ cars EXCEPT ![c].websocket_id = Unassigned ])

\* A free_car of a session that does not own the car was refused.
C22_Witness ==
    /\ response = Reply("error", "free_car", "not selected by this client", None)
    /\ \E c \in DOMAIN cars : cars[c].websocket_id \in Sessions

\* C23 free_cars_by_websocket: in every registry the program reaches and for
\* every session S, free_cars_by_websocket(S) returns exactly the ids of the
\* cars whose owner is S, sets the owner of exactly these cars to Unassigned
\* and leaves every other car as it was; the end of session S does this to the
\* registry.
C23_FreeAllBy ==
    /\ [](\A S \in Sessions :
            LET r == free_cars_by_websocket(cars, S)
            IN  /\ r.freed_cars = { c \in DOMAIN cars : cars[c].websocket_id = S }
                /\ DOMAIN r.cars = DOMAIN cars
                /\ \A c \in DOMAIN cars :
                      r.cars[c] = IF cars[c].websocket_id = S
                                  THEN [ cars[c] EXCEPT !.websocket_id = Unassigned ]
                                  ELSE cars[c])
    /\ [][ \A S \in Sessions :
             SessionEnd(S) =>
               \A c \in DOMAIN cars :
                  cars'[c].websocket_id =
                      IF cars[c].websocket_id = S THEN Unassigned
                      ELSE cars[c].websocket_id ]_vars

\* A session has ended and owns nothing, while another session still owns a
\* car and a further car is Unassigned.
C23_Witness ==
    \E S \in Sessions :
        /\ conn[S] = "ended"
        /\ \A c \in DOMAIN cars : cars[c].websocket_id # S
        /\ \E c \in DOMAIN cars : cars[c].websocket_id \in Sessions \ {S}
        /\ \E c \in DOMAIN cars : cars[c].websocket_id = Unassigned

\* The sessions that were registered when the broadcast b was started.
registered_at_start(b) == { b.order[i] : i \in 1..Len(b.order) }

\* The broadcast of session S returns or raises in this step.
BroadcastEnds(S) ==
    /\ broadcast'[S] = NoBroadcast
    /\ \/ broadcast[S] # NoBroadcast /\ BroadcastStep(S)
       \/ \E data \in BroadcastInputs :
             GameMessage(S, data) /\ game_action(game_manager, data).success

\* The sessions the broadcast that ends in this step has sent its payload to.
sent_when_ended(S) ==
    IF broadcast[S] # NoBroadcast THEN broadcast[S].sent ELSE {}

\* C24 Game broadcast: when the broadcast of a game action that succeeded
\* ends, every session that was registered when it started and is still
\* registered with an open transport has been sent the payload, whatever
\* sessions connected or disconnected meanwhile; and a game action that
\* fails starts no broadcast.
C24_GameBroadcast ==
    [][ \A S \in GameSessions :
          /\ ( broadcast[S] # NoBroadcast /\ BroadcastEnds(S) )
               => \A T \in registered_at_start(broadcast[S]) :
                     ( T \in active_connections' /\ conn'[T] = "open" )
                     => T \in broadcast[S].sent
          /\ \A data \in BroadcastInputs :
               ( GameMessage(S, data) /\ ~game_action(game_manager, data).success )
               => ( /\ broadcast' = broadcast
                    /\ response'.status = "error" ) ]_vars

\* The cars session T owns in the registry registry.
cars_of(registry, T) ==
    { c \in DOMAIN registry : registry[c].websocket_id = T }

\* C25 Broadcast reaping: when a broadcast ends, every session whose send
\* failed is no longer in active_connections and owns no car, and every
\* session whose send succeeded keeps its registration and its cars as they
\* were before the broadcast ended.
C25_BroadcastReaping ==
    [][ \A S \in GameSessions :
          ( broadcast[S] # NoBroadcast /\ BroadcastEnds(S) )
          => /\ \A T \in broadcast[S].disconnected_connections :
                   /\ T \notin active_connections'
                   /\ cars_of(cars', T) = {}
             /\ \A T \in broadcast[S].sent :
                   /\ T \in active_connections <=> T \in active_connections'
                   /\ cars_of(cars', T) = cars_of(cars, T) ]_vars

\* C26 Error isolation: a session whose game action succeeded and whose own
\* transport is open receives the success reply and no error reply when its
\* broadcast ends, whatever the other sessions did meanwhile; and a session
\* loses a car only by the end of its own session or by the failure of a
\* send to itself.
C26_ErrorIsolation ==
    [][ \A S \in GameSessions :
          /\ ( broadcast[S] # NoBroadcast /\ BroadcastEnds(S) /\ conn[S] = "open" )
               => /\ response'.status = "success"
                  /\ response'.action = broadcast[S].action
          /\ cars_of(cars', S) # cars_of(cars, S)
               => \/ SessionEnd(S)
                  \/ \E R \in GameSessions :
                        /\ broadcast[R] # NoBroadcast
                        /\ S \in broadcast[R].disconnected_connections ]_vars

\* C27 Automatic game end: the round of the monitor that finds an active game
\* with no time remaining moves the game to state "ended", and its
\* game-ended broadcast is sent: the round ends with the log entry "Game ended
\* due to time expiration - broadcast sent" and not in the except clause.
C27_AutomaticGameEnd ==
    [][ game_time_monitor
        => /\ game_state(game_manager'.current_game) = "ended"
           /\ monitor_log' = "Game ended due to time expiration - broadcast sent" ]_vars

\* C28 is_connected: in every state is_connected of the device is true only
\* while its client exists and the GATT link of that client is open.
C28_IsConnected ==
    is_connected[AddrA] => ( client # NoClient /\ client \in link_open )

\* C30 Retry backoff: the backoff sleep of connect(retries) starts after a
\* failed attempt only when attempts remain, and so does the stale-link
\* clear of the abort class; after the last failed attempt connect returns
\* False without sleeping.
C30_RetryBackoff ==
    [][ \A t \in Tasks :
          /\ ( device_call[t].pc # "backoff" /\ device_call'[t].pc = "backoff" )
               => device_call'[t].attempt < device_call'[t].retries
          /\ ( device_call[t].pc # "backoff_clear"
               /\ device_call'[t].pc = "backoff_clear" )
               => device_call'[t].attempt < device_call'[t].retries ]_vars

\* C29 Phase events: every step that changes current_phase passes the new
\* phase to the phase callbacks, and every phase passed to the callbacks is
\* current_phase at that moment.
C29_PhaseEvents ==
    [][ /\ current_phase' # current_phase => phase_event' = current_phase'
        /\ phase_event' # phase_event => phase_event' = current_phase' ]_vars

\* C31 Unsolicited link loss: when a GATT write on a device with is_connected
\* raises, is_connected of that device becomes false.
C31_UnsolicitedLinkLoss ==
    [][ \A t \in Tasks :
          ( WriteDone(t, FALSE) /\ is_connected[task[t].address] )
          => ~is_connected'[task[t].address] ]_vars

\* The call of task t returns in this step with the value returned.
DeviceCallReturns(t, op, returned) ==
    /\ device_call[t].op = op
    /\ device_call'[t].pc = "idle"
    /\ device_call'[t].returned = returned

\* The session of the device is Idle, or Connected, in the next state.
SessionIdle == ~is_connected'[AddrA] /\ client' = NoClient
SessionConnected == is_connected'[AddrA] /\ client' # NoClient

\* C32 Device Session state machine: connect() returns True only with the
\* session Connected (is_connected true, client set); a connect() that
\* exhausted its attempts returns False with the session Idle (is_connected
\* false, client None); disconnect() ends with the session Idle.
C32_DeviceSessionStateMachine ==
    [][ \A t \in Tasks :
          /\ DeviceCallReturns(t, "connect", "True") => SessionConnected
          /\ DeviceCallReturns(t, "connect", "False") => SessionIdle
          /\ DeviceCallReturns(t, "disconnect", None) => SessionIdle ]_vars

\* The scanner of the operation of task t is started in this step.
ScanStarts(t, pcs) == task'[t].pc \in pcs /\ task[t].pc # task'[t].pc

\* C33 Stale-connection sweep: a device that fails its health check is
\* disconnected and one that passes is left connected; when a discovery scan
\* starts the sweep has reached every device still marked connected; and when
\* the fresh-reference scan or the rescan of connect_to_device starts, no
\* device is marked connected, as these scans are preceded by no health
\* check that a device marked connected could have passed.
C33_StaleConnectionSweep ==
    [][ \A t \in Tasks :
          /\ HealthCheckDone(t, FALSE) => ~is_connected'[task[t].address]
          /\ HealthCheckDone(t, TRUE) => is_connected' = is_connected
          /\ ScanStarts(t, {"scan"})
               => \A d \in DOMAIN is_connected :
                     is_connected'[d]
                     => /\ task[t].pc = "health"
                        /\ position(d) <= position(task[t].address)
          /\ ScanStarts(t, {"fresh_scan", "rescan"})
               => \A d \in DOMAIN is_connected : ~is_connected'[d] ]_vars

\* The number of events of type event_type for address in events.
EventCount(events, address, event_type) ==
    Cardinality({ i \in 1..Len(events) :
                    /\ events[i].address = address
                    /\ events[i].event_type = event_type })

\* C34 Discovery events: after a discovery scan every seen address that was
\* not yet known has produced one "discovered" event and has a Car in the
\* registry, and every seen address that was already known has produced one
\* "rediscovered" event and no "discovered" event.
C34_DiscoveryEvents ==
    [][ \A seen \in SeenOrders :
          DiscoverCars(seen)
          => LET events == device_events(discovered_devices, seen)
             IN  \A i \in 1..Len(seen) :
                   IF seen[i].address \in discovered_devices
                   THEN /\ EventCount(events, seen[i].address, "rediscovered") = 1
                        /\ EventCount(events, seen[i].address, "discovered") = 0
                   ELSE /\ EventCount(events, seen[i].address, "discovered") = 1
                        /\ \E c \in DOMAIN cars' :
                              cars'[c].ble_address = seen[i].address ]_vars

\* C35 Lock scope: a step of a task that holds ble_operation_lock neither
\* changes the car registry nor sends on a client transport.
C35_LockScope ==
    [][ \A t \in Tasks :
          ( ble_operation_lock = t /\ task'[t] # task[t] )
          => /\ cars' = cars
             /\ response' = response ]_vars

\* C36 Scan phase: while the discovery scan of a start_scan_phase call is in
\* progress, with the adapter lock held by its task, current_phase is "scan".
C36_ScanDrivesPhase ==
    \A t \in Tasks :
        ( /\ task[t].op = "start_scan_phase"
          /\ task[t].pc \in {"health", "scan"}
          /\ ble_operation_lock = t )
        => current_phase = "scan"

\* C37 Drive write order: all four GATT writes of an earlier move_car are
\* submitted before any write of a later move_car.  Hence whenever the
\* set_drive calls of two move_car messages have a write in flight at once,
\* one of them has submitted its fourth write, Decay.
C37_DriveWriteOrder ==
    \A t1, t2 \in Tasks :
        ( t1 # t2 /\ drive_write_in_flight(t1) /\ drive_write_in_flight(t2) )
        => ( task[t1].pc = "write_decay" \/ task[t2].pc = "write_decay" )

Rediscovered(cs, a) ==
    get_car_by_ble_name(cs, a.name) \cup get_car_by_ble_address(cs, a.address) # {}

\* C39 Rediscovery frame: a scan whose one advertisement matches a Car of the
\* registry by ble_name or ble_address leaves the set of registry entries and
\* every Car's car_id, owner and cached move, x and boost as they were; the
\* matched Car has the name and address of the advertisement, and every other
\* Car is unchanged.
C39_RediscoveryFrame ==
    [][ \A a \in Advertisements :
          ( DiscoverCars(<<a>>) /\ Rediscovered(cars, a) )
          => /\ DOMAIN cars' = DOMAIN cars
             /\ \A c \in DOMAIN cars :
                   /\ cars'[c].car_id = cars[c].car_id
                   /\ cars'[c].websocket_id = cars[c].websocket_id
                   /\ cars'[c].move = cars[c].move
                   /\ cars'[c].x = cars[c].x
                   /\ cars'[c].boost = cars[c].boost
                   /\ cars'[c] # cars[c]
                        => /\ cars'[c].ble_name = a.name
                           /\ cars'[c].ble_address = a.address ]_vars

\* A Car that has an owner and a cached command is in the registry, and its
\* device is among the discovered ones: the next scan rediscovers it.
C39_Witness ==
    \E c \in DOMAIN cars :
        /\ cars[c].websocket_id \in Sessions
        /\ cars[c].move # "stopped"
        /\ cars[c].ble_address \in discovered_devices
        /\ \E a \in Advertisements : a.address = cars[c].ble_address /\ a.name = cars[c].ble_name


\* C40 Reply delivery: a game action that fails gets one direct error reply
\* and starts no broadcast; when the handling of a successful game action of
\* session S ends with the transport of S open, S has been sent the
\* broadcast copy and then gets the same payload as its direct reply, and
\* every other session that is registered with an open transport has been
\* sent the payload.
C40_ReplyDelivery ==
    [][ \A S \in GameSessions :
          /\ ( broadcast[S] # NoBroadcast /\ BroadcastEnds(S) /\ conn[S] = "open" )
               => /\ response' = Reply("success", broadcast[S].action, None, None)
                  /\ S \in broadcast[S].sent
                  /\ \A T \in ( active_connections' \ {S} ) :
                        conn'[T] = "open" => T \in broadcast[S].sent
          /\ \A data \in BroadcastInputs :
               ( GameMessage(S, data) /\ ~game_action(game_manager, data).success )
               => ( /\ broadcast'[S] = NoBroadcast
                    /\ response' = Reply("error", data.action,
                                         game_action(game_manager, data).message,
                                         None) ) ]_vars

==============================================================================
